---- MODULE Spec2Model ----
(***************************************************************************)
(* jpl-tour-bot: one execution of the package entry point (main), the run  *)
(* controller (run_bot), the scrape pipeline (_scrape_tour), the state     *)
(* record (State) and the reservation routine (_open_tour_reservation).    *)
(*                                                                         *)
(* Texts (element texts, state fields, notification contents) are          *)
(* sequences of string tokens; the token " " is white space.               *)
(***************************************************************************)
EXTENDS Integers, Sequences, FiniteSets, TLC

VARIABLES
    pc,                     \* position of the process in main / run_bot / _scrape_tour
    runs,                   \* number of executions started so far
    file,                   \* content of STATE_FILE on disk
    args,                   \* Args of this execution
    state,                  \* main's `state` object (meaningful when state_set)
    state_set,              \* main's `state is not None`
    loaded,                 \* the State as from_file returned it in this execution
    exc,                    \* exception in flight ("none" when there is none)
    browser,                \* "none" | "alive" | "closed"
    browser_session_id,     \* run_bot's browser_session_id
    msg_element,            \* _get_next_tour_release_date's msg_element (text or Absent)
    tour_availability_msg,  \* _scrape_tour's tour_availability_msg
    available_tours_table,  \* _scrape_tour's available_tours_table (index in Tables, 0 = None)
    tour_details,           \* _scrape_tour's / run_bot's tour_details
    scrape_msgs,            \* _scrape_tour's local notification_messages
    notification_messages,  \* main's notification_messages
    warnings,               \* handler.warnings
    errors,                 \* handler.errors
    trace,                  \* operations performed in this execution, in order
    exit_status,            \* process exit status (NoExit while running)
    otr                     \* locals of _open_tour_reservation

vars == <<pc, runs, file, args, state, state_set, loaded, exc, browser,
          browser_session_id, msg_element, tour_availability_msg,
          available_tours_table, tour_details, scrape_msgs,
          notification_messages, warnings, errors, trace, exit_status, otr>>

\* ------------------------------------------------------------------ bounds

\* Executions of the program in one behaviour (each starts from the file the
\* previous one left).
MaxRuns == 2

\* ------------------------------------------------------------------- texts

\* A lookup that found nothing (Python's None for an element).
Absent == <<"<None>">>

\* Python's None for an object reference.
None == "None"

\* Marker of a process that has not exited.
NoExit == 0 - 1

WS == " "

RECURSIVE lstrip(_)
lstrip(t) == IF t # <<>> /\ Head(t) = WS THEN lstrip(Tail(t)) ELSE t

RECURSIVE rstrip(_)
rstrip(t) ==
    IF t # <<>> /\ t[Len(t)] = WS THEN rstrip(SubSeq(t, 1, Len(t) - 1)) ELSE t

\* str.strip()
strip(t) == rstrip(lstrip(t))

\* ------------------------------------------------------------ Notification

Notification(title, content) == [title |-> title, content |-> content]

TitleNextMsg == "Next tour message has changed"
TitleAvailability == "Tour availability has changed"
TitleTable == "Tour details"

\* ------------------------------------------------------------------- State

Fields == {"BROWSER_SESSION", "NEXT_TOUR_MSG", "TOUR_AVAILABLE", "TOUR_TABLE"}

\* State(): the dataclass defaults.
DefaultState ==
    [BROWSER_SESSION |-> "",
     NEXT_TOUR_MSG   |-> <<"(empty)">>,
     TOUR_AVAILABLE  |-> <<>>,
     TOUR_TABLE      |-> <<>>]

\* A changed set_field that assigns and notifies even when nothing changed.
set_field_always(self, field, msg, notification_title) ==
    [raised |-> "none",
     state  |-> [self EXCEPT ![field] = msg],
     ret    |-> <<Notification(notification_title, msg)>>]

\* A changed set_field that notifies but forgets to assign.
set_field_noassign(self, field, msg, notification_title) ==
    IF msg = self[field]
    THEN [raised |-> "none", state |-> self, ret |-> <<>>]
    ELSE [raised |-> "none", state |-> self,
          ret |-> <<Notification(notification_title, msg)>>]

\* A changed set_field that assigns the field and reports nothing, as a plain
\* assignment does.
set_field_silent(self, field, msg, notification_title) ==
    [raised |-> "none", state |-> [self EXCEPT ![field] = msg], ret |-> <<>>]

\* State.set_field; ret is <<>> for None and <<n>> for a Notification n.
set_field(self, field, msg, notification_title) ==
    IF field \notin DOMAIN self
    THEN [raised |-> "AttributeError", state |-> self, ret |-> <<>>]
    ELSE IF msg = self[field]
    THEN [raised |-> "none", state |-> self, ret |-> <<>>]
    ELSE [raised |-> "none",
          state  |-> [self EXCEPT ![field] = msg],
          ret    |-> <<Notification(notification_title, msg)>>]

\* The state file: kind "missing" (no file), "garbage" (not JSON), "scalar"
\* (JSON that is no object) or "json" (an object with the keys `keys`; val
\* holds their values and the defaults for the fields that are not keys).
MissingFile == [kind |-> "missing", keys |-> {}, val |-> DefaultState]
GarbageFile == [kind |-> "garbage", keys |-> {}, val |-> DefaultState]
ScalarFile  == [kind |-> "scalar",  keys |-> {}, val |-> DefaultState]
JsonFile(keys, val) == [kind |-> "json", keys |-> keys, val |-> val]

\* A changed from_file that also falls back to the defaults on undecodable JSON.
from_file_lenient(f) ==
    IF f.kind \in {"missing", "garbage"}
    THEN [raised |-> "none", state |-> DefaultState, warned |-> f.kind = "garbage"]
    ELSE IF f.kind = "scalar" \/ ~(f.keys \subseteq Fields)
    THEN [raised |-> "none", state |-> DefaultState, warned |-> TRUE]
    ELSE [raised |-> "none", state |-> f.val, warned |-> FALSE]

\* State.from_file
from_file(f) ==
    IF f.kind = "missing"
    THEN [raised |-> "none", state |-> DefaultState, warned |-> FALSE]
    ELSE IF f.kind = "garbage"
    THEN \* json.load is outside the try block
         [raised |-> "JSONDecodeError", state |-> DefaultState, warned |-> FALSE]
    ELSE IF f.kind = "scalar" \/ ~(f.keys \subseteq Fields)
    THEN \* State(**state_json) raises TypeError, caught
         [raised |-> "none", state |-> DefaultState, warned |-> TRUE]
    ELSE [raised |-> "none", state |-> f.val, warned |-> FALSE]

\* State.save_to_file: the file the call leaves on disk.
save_to_file(self) == JsonFile(Fields, self)

\* ------------------------------------------------------------------- dates

\* The decimal tokens the pages of the model use, with their values.
NumTok ==
    ("00" :> 0) @@ ("1" :> 1) @@ ("01" :> 1) @@ ("02" :> 2) @@ ("05" :> 5) @@
    ("07" :> 7) @@ ("10" :> 10) @@ ("13" :> 13) @@ ("20" :> 20) @@ ("30" :> 30) @@
    ("59" :> 59) @@ ("60" :> 60) @@ ("2025" :> 2025)

\* Tokens of one or two digits (%m, %d, %M, %S) and of four digits (%Y).
ShortNum == {"00", "1", "01", "02", "05", "07", "10", "13", "20", "30", "59", "60"}
YearNum == {"2025"}

DaysIn(m, y) ==
    IF m = 2 THEN (IF y % 4 = 0 /\ (y % 100 # 0 \/ y % 400 = 0) THEN 29 ELSE 28)
    ELSE IF m \in {4, 6, 9, 11} THEN 30 ELSE 31

\* A datetime at midnight, as a number that orders like the datetime.
Datetime(y, m, d) == y * 10000 + m * 100 + d

\* datetime.strptime(t, '%m/%d/%Y'): ok is FALSE where Python raises ValueError.
strptime_mdY(t) ==
    IF /\ Len(t) = 5
       /\ t[2] = "/" /\ t[4] = "/"
       /\ t[1] \in ShortNum /\ t[3] \in ShortNum /\ t[5] \in YearNum
       /\ NumTok[t[1]] \in 1..12
       /\ NumTok[t[3]] \in 1..DaysIn(NumTok[t[1]], NumTok[t[5]])
    THEN [ok |-> TRUE, value |-> Datetime(NumTok[t[5]], NumTok[t[1]], NumTok[t[3]])]
    ELSE [ok |-> FALSE, value |-> 0]

\* datetime.strptime(t, '%M:%S'): minute and second of the result.
strptime_MS(t) ==
    IF /\ Len(t) = 3
       /\ t[2] = ":"
       /\ t[1] \in ShortNum /\ t[3] \in ShortNum
       /\ NumTok[t[1]] \in 0..59
       /\ NumTok[t[3]] \in 0..59
    THEN [ok |-> TRUE, minute |-> NumTok[t[1]], second |-> NumTok[t[3]]]
    ELSE [ok |-> FALSE, minute |-> 0, second |-> 0]

\* ------------------------------------------------------------------- pages

\* Texts the "Next Tours Release Date" element can show.
NextMsgTexts == {<<"Tours", "open", "soon">>}

\* Raw texts of the inline error label and of the tour counter.
ErrLabelTexts == {<<WS, "No", "tours", "found.", WS>>}
TourCountTexts == {<<"3", "tours", "available", WS>>}

Cell(text, button) == [text |-> text, button |-> button]

D_Jan10 == <<"01", "/", "10", "/", "2025">>
D_Jan20 == <<"1", "/", "20", "/", "2025">>
D_Feb05 == <<"02", "/", "05", "/", "2025">>
D_Bad   == <<"TBD">>
Morning == <<"9:00", "AM">>
Noon    == <<"1:00", "PM">>

H_Date    == <<"Tour", "Date">>
H_Time    == <<"Tour", "Time">>
H_Reserve == <<"Reserve">>

\* The tables of available tours a page can show: the header cells' texts and
\* the content cells, row after row.
Tables == <<
    \* 1: two tours, both with a Reserve button
    [header |-> <<H_Date, H_Time, H_Reserve>>,
     cells  |-> <<Cell(D_Jan10, FALSE), Cell(Morning, FALSE), Cell(<<"Reserve">>, TRUE),
                  Cell(<<WS>> \o D_Jan20, FALSE), Cell(Noon, FALSE), Cell(<<"Reserve">>, TRUE)>>],
    \* 2: the Reserve column first; the first tour is full (no button)
    [header |-> <<H_Reserve, H_Date, H_Time>>,
     cells  |-> <<Cell(<<"Full">>, FALSE), Cell(D_Feb05, FALSE), Cell(Noon, FALSE),
                  Cell(<<"Reserve">>, TRUE), Cell(D_Jan20, FALSE), Cell(Morning, FALSE)>>],
    \* 3: a content cell is missing
    [header |-> <<H_Date, H_Time, H_Reserve>>,
     cells  |-> <<Cell(D_Jan10, FALSE), Cell(Morning, FALSE)>>]
>>

\* ------------------------------------------------------------------- Tour

Tour(date, times, button) == [DATE |-> date, TIMES |-> times, RESERVE_BUTTON |-> button]

\* 'w' in v, for a header text v: v has the word w.
HasWord(v, w) == \E i \in 1..Len(v) : v[i] = w

\* next((i for i, v in enumerate(table_header) if w in v), default), 0-based.
IndexOf(table_header, w, default) ==
    IF \E i \in 1..Len(table_header) : HasWord(table_header[i], w)
    THEN (CHOOSE i \in 1..Len(table_header) :
              /\ HasWord(table_header[i], w)
              /\ \A j \in 1..(i - 1) : ~HasWord(table_header[j], w)) - 1
    ELSE default

\* A changed parser that takes the columns by position: date, time, button.
_parse_available_tours_table_positional(t) ==
    LET header_cols == t.header
        n == Len(header_cols)
        texts == [i \in 1..n |-> strip(header_cols[i])]
        index_date == 0
        index_times == 1
        index_button == 2
        failed(e) == [raised |-> e, tour_details |-> <<>>, table_header |-> <<>>, misses |-> 0]
    IN  IF n = 0 THEN failed("NoSuchElementException")
        ELSE IF index_date >= n \/ index_times >= n \/ index_button >= n
        THEN failed("IndexError")
        ELSE IF Len(t.cells) = 0 THEN failed("NoSuchElementException")
        ELSE IF Len(t.cells) % n # 0 THEN failed("RuntimeError")
        ELSE LET num_rows == Len(t.cells) \div n
                 cell(r, index) == t.cells[(r - 1) * n + index + 1]
                 rows == [r \in 1..num_rows |->
                            Tour(strip(cell(r, index_date).text),
                                 strip(cell(r, index_times).text),
                                 cell(r, index_button).button)]
             IN [raised |-> "none",
                 tour_details |-> rows,
                 table_header |-> <<texts[index_date + 1], texts[index_times + 1],
                                    texts[index_button + 1]>>,
                 misses |-> Cardinality({r \in 1..num_rows : ~rows[r].RESERVE_BUTTON})]

\* _parse_available_tours_table on table t. raised names the exception, and
\* misses counts the rows whose Reserve button was not found (each logged).
_parse_available_tours_table(t) ==
    LET header_cols == t.header
        n == Len(header_cols)
        texts == [i \in 1..n |-> strip(header_cols[i])]
        index_date == IndexOf(texts, "Date", 0)
        index_times == IndexOf(texts, "Time", 1)
        index_button == IndexOf(texts, "Reserve", 2)
        failed(e) == [raised |-> e, tour_details |-> <<>>, table_header |-> <<>>, misses |-> 0]
    IN  IF n = 0 THEN failed("NoSuchElementException")
        ELSE IF index_date >= n \/ index_times >= n \/ index_button >= n
        THEN failed("IndexError")
        ELSE IF Len(t.cells) = 0 THEN failed("NoSuchElementException")
        ELSE IF Len(t.cells) % n # 0 THEN failed("RuntimeError")
        ELSE LET num_rows == Len(t.cells) \div n
                 cell(r, index) == t.cells[(r - 1) * n + index + 1]
                 rows == [r \in 1..num_rows |->
                            Tour(strip(cell(r, index_date).text),
                                 strip(cell(r, index_times).text),
                                 cell(r, index_button).button)]
             IN [raised |-> "none",
                 tour_details |-> rows,
                 table_header |-> <<texts[index_date + 1], texts[index_times + 1],
                                    texts[index_button + 1]>>,
                 misses |-> Cardinality({r \in 1..num_rows : ~rows[r].RESERVE_BUTTON})]

RECURSIVE Flatten(_)
Flatten(ss) == IF ss = <<>> THEN <<>> ELSE Head(ss) \o Flatten(Tail(ss))

\* _format_available_tours_table: tabulate(..., tablefmt='psql') as tokens, a
\* header line and one line per tour, columns separated by "|".
_format_available_tours_table(details, table_header) ==
    LET headers == SubSeq(table_header, 1, Len(table_header) - 1)
        line(cols) == Flatten([i \in 1..Len(cols) |-> <<"|">> \o cols[i]]) \o <<"|", "\n">>
    IN  line(headers)
        \o Flatten([i \in 1..Len(details) |-> line(<<details[i].DATE, details[i].TIMES>>)])

\* markdown_strings.code_block
code_block(text, language) ==
    <<"[code", language, "\n">> \o text \o <<"\n", "code]">>

\* WebElement.get_attribute('outerHTML') of table t: its raw markup.
outerHTML(t) ==
    <<"<table>">> \o Flatten(t.header)
    \o Flatten([i \in 1..Len(t.cells) |-> <<"<td>">> \o t.cells[i].text])
    \o <<"</table>">>


\* ------------------------------------------------------------ browser.py

\* _CustomWebDriver._find_element on a page where `matches` are the elements
\* that match the selector, in document order: find_elements returns them
\* all, find_element returns the first and raises when there is none.
_find_element(matches, multiple) ==
    IF multiple
    THEN [ret |-> matches, raised |-> "none", logged |-> FALSE]
    ELSE IF matches = <<>>
    THEN [ret |-> Absent, raised |-> "NoSuchElementException", logged |-> FALSE]
    ELSE [ret |-> matches[1], raised |-> "none", logged |-> FALSE]

\* find_by_class: NoSuchElementException is caught, logged, None returned.
find_by_class(matches) ==
    LET r == _find_element(matches, FALSE)
    IN  IF r.raised = "NoSuchElementException"
        THEN [ret |-> Absent, raised |-> "none", logged |-> TRUE]
        ELSE r

\* find_by_tag: the result of _find_element as it is, nothing caught.
find_by_tag(matches, multiple) == _find_element(matches, multiple)

\* find_by_xpath_or_error: the result of _find_element as it is.
find_by_xpath_or_error(matches) == _find_element(matches, FALSE)

\* find_by_xpath: NoSuchElementException is caught, logged, None returned.
find_by_xpath(matches) ==
    LET r == find_by_xpath_or_error(matches)
    IN  IF r.raised = "NoSuchElementException"
        THEN [ret |-> Absent, raised |-> "none", logged |-> TRUE]
        ELSE r

\* ---------------------------------------------------------------- scraping

\* browser.find for one element: elem is what the page holds for the selector
\* (Absent when nothing matches). A miss is logged at error level unless the
\* caller passes log_msg=None, and raises only with raise_exception=True.
find(elem, raise_exception, log) ==
    [ret    |-> elem,
     raised |-> IF elem = Absent /\ raise_exception
                THEN "NoSuchElementException" ELSE "none",
     logged |-> elem = Absent /\ log]

\* A changed _get_next_tour_release_date that starts from the empty string.
_get_next_tour_release_date_blank(elem) ==
    IF elem # Absent THEN elem ELSE <<>>

\* _get_next_tour_release_date: next_tour_msg starts as the class default
\* State.NEXT_TOUR_MSG and becomes the element's text when it was found.
_get_next_tour_release_date(elem) ==
    IF find(elem, FALSE, TRUE).ret # Absent THEN elem ELSE DefaultState.NEXT_TOUR_MSG

\* _get_tour_availability_after_search, once the results are visible.
_get_tour_availability_after_search(error_msg_element, tour_count) ==
    IF find(error_msg_element, FALSE, FALSE).ret # Absent
    THEN [ret |-> strip(error_msg_element), logged |-> FALSE]
    ELSE IF find(tour_count, FALSE, TRUE).ret # Absent
    THEN [ret |-> strip(tour_count), logged |-> FALSE]
    ELSE [ret |-> <<"Not", "found.">>, logged |-> TRUE]

\* ------------------------------------------------------------------- inputs

NewSessionIds == {"s1", "s2"}

Jan10 == Datetime(2025, 1, 10)
Jan20 == Datetime(2025, 1, 20)
Feb05 == Datetime(2025, 2, 5)

\* --reserve-date-range: <<>> when the option was not given.
NoRange == <<>>

Args(reserve_date_range, notify) ==
    [reserve_date_range |-> reserve_date_range, notify |-> notify]

\* The state files an execution can find at its first start.
InitFiles ==
    {MissingFile, GarbageFile, ScalarFile,
     JsonFile(Fields \cup {"PRESS_RESERVE_BUTTON"}, DefaultState),
     JsonFile({"BROWSER_SESSION"}, [DefaultState EXCEPT !.BROWSER_SESSION = "s1"])}
    \cup {JsonFile(Fields,
                   [BROWSER_SESSION |-> "s1", NEXT_TOUR_MSG |-> n,
                    TOUR_AVAILABLE |-> <<"No", "tours", "found.">>,
                    TOUR_TABLE |-> <<>>]) :
            n \in NextMsgTexts \cup {DefaultState.NEXT_TOUR_MSG}}

\* The locals of _open_tour_reservation before it is called.
OtrIdle ==
    [range |-> NoRange, clicked |-> 0, clock |-> <<>>, wait |-> 0 - 1,
     slept |-> 0 - 1, isatty |-> FALSE, answer |-> <<>>, ret |-> None]

\* ---------------------------------------------------------------- main, 1

IsException(e) == e \notin {"none", "KeyboardInterrupt"}

Init ==
    /\ pc = "main"
    /\ runs = 1
    /\ file \in InitFiles
    /\ args = Args(NoRange, FALSE)
    /\ state = DefaultState
    /\ state_set = FALSE
    /\ loaded = DefaultState
    /\ exc = "none"
    /\ browser = "none"
    /\ browser_session_id = ""
    /\ msg_element = Absent
    /\ tour_availability_msg = <<>>
    /\ available_tours_table = 0
    /\ tour_details = <<>>
    /\ scrape_msgs = <<>>
    /\ notification_messages = <<>>
    /\ warnings = <<>>
    /\ errors = <<>>
    /\ trace = <<>>
    /\ exit_status = NoExit
    /\ otr = OtrIdle

\* main, lines 22-28: the locals, the capture scope, Args.parse_args.
main_enter ==
    /\ pc = "main"
    /\ \E r \in {NoRange, <<Jan10, Jan20>>}, n \in BOOLEAN : args' = Args(r, n)
    /\ pc' = "from_file"
    /\ UNCHANGED <<runs, file, state, state_set, loaded, exc, browser,
                   browser_session_id, msg_element, tour_availability_msg,
                   available_tours_table, tour_details, scrape_msgs,
                   notification_messages, warnings, errors, trace, exit_status, otr>>

\* main, line 30: state = State.from_file(STATE_FILE).
main_from_file ==
    /\ pc = "from_file"
    /\ LET r == from_file(file)
       IN  /\ exc' = r.raised
           /\ state_set' = (r.raised = "none")
           /\ state' = r.state
           /\ loaded' = r.state
           /\ warnings' = IF r.warned
                          THEN Append(warnings, "Failed to parse the existing state file")
                          ELSE warnings
           /\ pc' = IF r.raised = "none" THEN "start_new_session" ELSE "ctx_exit"
    /\ trace' = Append(trace, "from_file")
    /\ UNCHANGED <<runs, file, args, browser, browser_session_id, msg_element,
                   tour_availability_msg, available_tours_table, tour_details,
                   scrape_msgs, notification_messages, errors, exit_status, otr>>

\* ------------------------------------------------------------------ run_bot

\* A changed shut_down that leaves the browser open.
shut_down_skip(b) == b

\* ChromeWebDriver.shut_down: quits the driver unless it is not alive.
shut_down(b) == IF b = "alive" THEN "closed" ELSE b

\* run_bot, lines 48-57: the optional wait and ChromeWebDriver.start_new_session,
\* which raises ProcessLookupError when a chromedriver process is running.
run_bot_start ==
    /\ pc = "start_new_session"
    /\ \E running \in BOOLEAN, id \in NewSessionIds :
         IF running
         THEN /\ exc' = "ProcessLookupError"
              /\ pc' = "ctx_exit"
              /\ UNCHANGED <<browser, browser_session_id>>
         ELSE /\ browser' = "alive"
              /\ browser_session_id' = id
              /\ pc' = "guard"
              /\ exc' = "none"
    /\ trace' = Append(trace, "start_new_session")
    /\ UNCHANGED <<runs, file, args, state, state_set, loaded, msg_element,
                   tour_availability_msg, available_tours_table, tour_details,
                   scrape_msgs, notification_messages, warnings, errors,
                   exit_status, otr>>

\* A changed session guard that records the new session only after scraping
\* (here: never before the pipeline starts).
run_bot_guard_late ==
    /\ pc = "guard"
    /\ IF browser_session_id = state.BROWSER_SESSION
       THEN /\ browser' = shut_down(browser)
            /\ trace' = Append(trace, "shut_down")
            /\ exc' = "ValueError"
            /\ pc' = "ctx_exit"
       ELSE /\ pc' = "open_url"
            /\ UNCHANGED <<browser, trace, exc>>
    /\ UNCHANGED <<runs, file, args, state, state_set, loaded, browser_session_id,
                   msg_element, tour_availability_msg, available_tours_table,
                   tour_details, scrape_msgs, notification_messages, warnings,
                   errors, exit_status, otr>>

\* A changed session guard that goes on scraping in a reused session.
run_bot_guard_off ==
    /\ pc = "guard"
    /\ state' = [state EXCEPT !.BROWSER_SESSION = browser_session_id]
    /\ pc' = "open_url"
    /\ UNCHANGED <<runs, file, args, state_set, loaded, exc, browser,
                   browser_session_id, msg_element, tour_availability_msg,
                   available_tours_table, tour_details, scrape_msgs,
                   notification_messages, warnings, errors, trace, exit_status, otr>>

\* A changed session guard that forgets the stored session when it aborts, so
\* that the next run can go on.
run_bot_guard_resets ==
    /\ pc = "guard"
    /\ IF browser_session_id = state.BROWSER_SESSION
       THEN /\ browser' = shut_down(browser)
            /\ trace' = Append(trace, "shut_down")
            /\ exc' = "ValueError"
            /\ pc' = "ctx_exit"
            /\ state' = [state EXCEPT !.BROWSER_SESSION = ""]
       ELSE /\ state' = [state EXCEPT !.BROWSER_SESSION = browser_session_id]
            /\ pc' = "open_url"
            /\ UNCHANGED <<browser, trace, exc>>
    /\ UNCHANGED <<runs, file, args, state_set, loaded, browser_session_id,
                   msg_element, tour_availability_msg, available_tours_table,
                   tour_details, scrape_msgs, notification_messages, warnings,
                   errors, exit_status, otr>>

\* run_bot, lines 59-64: abort when the session identifier has not changed,
\* else store the new one in the state.
run_bot_guard ==
    /\ pc = "guard"
    /\ IF browser_session_id = state.BROWSER_SESSION
       THEN /\ browser' = shut_down(browser)
            /\ trace' = Append(trace, "shut_down")
            /\ exc' = "ValueError"
            /\ pc' = "ctx_exit"
            /\ UNCHANGED state
       ELSE /\ state' = [state EXCEPT !.BROWSER_SESSION = browser_session_id]
            /\ pc' = "open_url"
            /\ UNCHANGED <<browser, trace, exc>>
    /\ UNCHANGED <<runs, file, args, state_set, loaded, browser_session_id,
                   msg_element, tour_availability_msg, available_tours_table,
                   tour_details, scrape_msgs, notification_messages, warnings,
                   errors, exit_status, otr>>

\* The positions inside run_bot's try block.
InTry == {"open_url", "next_msg", "submit", "availability", "find_table",
          "parse_table", "reserve"}

\* An operator interrupt (KeyboardInterrupt) inside the try block.
run_bot_interrupt ==
    /\ pc \in InTry
    /\ exc' = "KeyboardInterrupt"
    /\ pc' = "finally"
    /\ UNCHANGED <<runs, file, args, state, state_set, loaded, browser, browser_session_id,
                   msg_element, tour_availability_msg, available_tours_table,
                   tour_details, scrape_msgs, notification_messages, warnings,
                   errors, trace, exit_status, otr>>

\* _scrape_tour, lines 89-94: browser.open_url, which logs a failure and goes on.
scrape_open_url ==
    /\ pc = "open_url"
    /\ \E ok \in BOOLEAN :
         errors' = IF ok THEN errors ELSE Append(errors, "Failed to open URL")
    /\ scrape_msgs' = <<>>
    /\ trace' = Append(trace, "open_url")
    /\ pc' = "next_msg"
    /\ UNCHANGED <<runs, file, args, state, state_set, loaded, exc, browser,
                   browser_session_id, msg_element, tour_availability_msg,
                   available_tours_table, tour_details, notification_messages,
                   warnings, exit_status, otr>>

\* _scrape_tour, lines 96-99: the next tour release message.
scrape_next_msg ==
    /\ pc = "next_msg"
    /\ \E elem \in NextMsgTexts \cup {Absent} :
         LET r == set_field(state, "NEXT_TOUR_MSG",
                            _get_next_tour_release_date(elem), TitleNextMsg)
         IN  /\ msg_element' = elem
             /\ state' = r.state
             /\ scrape_msgs' = scrape_msgs \o r.ret
             /\ errors' = IF find(elem, FALSE, TRUE).logged
                          THEN Append(errors, "Could not find element")
                          ELSE errors
    /\ trace' = Append(trace, "find_next_msg")
    /\ pc' = "submit"
    /\ UNCHANGED <<runs, file, args, state_set, loaded, exc, browser,
                   browser_session_id, tour_availability_msg,
                   available_tours_table, tour_details, notification_messages,
                   warnings, exit_status, otr>>

\* A changed form step that records a failure of the form and goes on to read
\* the results.
scrape_submit_goes_on ==
    /\ pc = "submit"
    /\ \E o \in {"none", "NoSuchElementException", "RuntimeError", "TimeoutException",
                 "WebDriverException"} :
         /\ exc' = "none"
         /\ browser' = IF o = "WebDriverException" THEN "dead" ELSE browser
         /\ pc' = "availability"
         /\ errors' = IF o = "none" THEN errors ELSE Append(errors, o)
    /\ trace' = Append(trace, "submit_form")
    /\ UNCHANGED <<runs, file, args, state, state_set, loaded,
                   browser_session_id, msg_element, tour_availability_msg,
                   available_tours_table, tour_details, scrape_msgs,
                   notification_messages, warnings, exit_status, otr>>

\* _scrape_tour, lines 103-104: _submit_tour_search_form. A control that is
\* not found raises NoSuchElementException, a disabled or unclickable submit
\* button RuntimeError, a gear icon that does not show or go TimeoutException,
\* a driver that has died WebDriverException.
scrape_submit ==
    /\ pc = "submit"
    /\ \E o \in {"none", "NoSuchElementException", "RuntimeError", "TimeoutException",
                 "WebDriverException"} :
         /\ exc' = o
         /\ browser' = IF o = "WebDriverException" THEN "dead" ELSE browser
         /\ pc' = IF o = "none" THEN "availability" ELSE "finally"
         /\ errors' = IF o = "NoSuchElementException"
                      THEN Append(errors, "Could not find tour search form")
                      ELSE errors
    /\ trace' = Append(trace, "submit_form")
    /\ UNCHANGED <<runs, file, args, state, state_set, loaded,
                   browser_session_id, msg_element, tour_availability_msg,
                   available_tours_table, tour_details, scrape_msgs,
                   notification_messages, warnings, exit_status, otr>>

\* A changed availability step that puts its notification in front of the list.
scrape_availability_front ==
    /\ pc = "availability"
    /\ \E error_msg_element \in ErrLabelTexts \cup {Absent},
          tour_count \in TourCountTexts \cup {Absent} :
         LET a == _get_tour_availability_after_search(error_msg_element, tour_count)
             r == set_field(state, "TOUR_AVAILABLE", a.ret, TitleAvailability)
         IN  /\ tour_availability_msg' = a.ret
             /\ state' = r.state
             /\ scrape_msgs' = r.ret \o scrape_msgs
    /\ trace' = Append(trace, "get_availability")
    /\ pc' = "find_table"
    /\ UNCHANGED <<runs, file, args, state_set, loaded, browser, exc, errors,
                   browser_session_id, msg_element, available_tours_table,
                   tour_details, notification_messages, warnings, exit_status, otr>>

\* _scrape_tour, lines 106-109: wait for the results (TimeoutException when
\* they do not show), read the availability text, compare it with the state.
scrape_availability ==
    /\ pc = "availability"
    /\ \E timeout \in BOOLEAN,
          error_msg_element \in ErrLabelTexts \cup {Absent},
          tour_count \in TourCountTexts \cup {Absent} :
         IF timeout
         THEN /\ exc' = "TimeoutException"
              /\ pc' = "finally"
              /\ UNCHANGED <<tour_availability_msg, state, scrape_msgs, errors>>
         ELSE LET a == _get_tour_availability_after_search(error_msg_element, tour_count)
                  r == set_field(state, "TOUR_AVAILABLE", a.ret, TitleAvailability)
              IN  /\ tour_availability_msg' = a.ret
                  /\ state' = r.state
                  /\ scrape_msgs' = scrape_msgs \o r.ret
                  /\ errors' = IF a.logged
                               THEN Append(errors, "Could not find element")
                               ELSE errors
                  /\ pc' = "find_table"
                  /\ UNCHANGED exc
    /\ trace' = Append(trace, "get_availability")
    /\ UNCHANGED <<runs, file, args, state_set, loaded, browser,
                   browser_session_id, msg_element, available_tours_table,
                   tour_details, notification_messages, warnings, exit_status, otr>>

\* _scrape_tour, lines 111-114: look for the table of available tours (a miss
\* is not logged) and, when it is there, take the full-page screenshot, whose
\* failure is not caught.
scrape_find_table ==
    /\ pc = "find_table"
    /\ tour_details' = <<>>
    /\ \E k \in 0..Len(Tables), screenshot_ok \in BOOLEAN :
         /\ available_tours_table' = k
         /\ IF k = 0
            THEN /\ pc' = "reserve"
                 /\ trace' = Append(trace, "find_table")
                 /\ UNCHANGED exc
            ELSE IF screenshot_ok
            THEN /\ pc' = "parse_table"
                 /\ trace' = trace \o <<"find_table", "screenshot">>
                 /\ UNCHANGED exc
            ELSE /\ pc' = "finally"
                 /\ trace' = trace \o <<"find_table", "screenshot">>
                 /\ exc' = "WebDriverException"
    /\ UNCHANGED <<runs, file, args, state, state_set, loaded, browser,
                   browser_session_id, msg_element, tour_availability_msg,
                   scrape_msgs, notification_messages, warnings, errors,
                   exit_status, otr>>

RECURSIVE AppendN(_, _, _)
AppendN(seq, n, e) == IF n = 0 THEN seq ELSE AppendN(Append(seq, e), n - 1, e)

\* A changed table step that logs the parser's exception as a warning.
scrape_parse_table_warns ==
    /\ pc = "parse_table"
    /\ LET t == Tables[available_tours_table]
           p == _parse_available_tours_table(t)
           tour_table ==
               IF p.raised # "none"
               THEN code_block(outerHTML(t), "html")
               ELSE code_block(_format_available_tours_table(p.tour_details,
                                                             p.table_header), "text")
           r == set_field(state, "TOUR_TABLE", tour_table, TitleTable)
       IN  /\ tour_details' = p.tour_details
           /\ errors' = IF p.raised # "none" THEN errors
                        ELSE AppendN(errors, p.misses, "Could not find Reservation button")
           /\ warnings' = IF p.raised # "none"
                          THEN Append(warnings, "Could not parse the table of available tours")
                          ELSE warnings
           /\ state' = r.state
           /\ scrape_msgs' = scrape_msgs \o r.ret
    /\ trace' = Append(trace, "parse_table")
    /\ pc' = "reserve"
    /\ UNCHANGED <<runs, file, args, state_set, loaded, exc, browser,
                   browser_session_id, msg_element, tour_availability_msg,
                   available_tours_table, notification_messages, exit_status, otr>>

\* A changed table step that lets the parser's exception leave _scrape_tour.
scrape_parse_table_raises ==
    /\ pc = "parse_table"
    /\ LET t == Tables[available_tours_table]
           p == _parse_available_tours_table(t)
           tour_table == code_block(_format_available_tours_table(p.tour_details,
                                                                  p.table_header), "text")
           r == set_field(state, "TOUR_TABLE", tour_table, TitleTable)
       IN  IF p.raised # "none"
           THEN /\ exc' = p.raised
                /\ pc' = "finally"
                /\ UNCHANGED <<tour_details, errors, state, scrape_msgs>>
           ELSE /\ tour_details' = p.tour_details
                /\ errors' = AppendN(errors, p.misses, "Could not find Reservation button")
                /\ state' = r.state
                /\ scrape_msgs' = scrape_msgs \o r.ret
                /\ pc' = "reserve"
                /\ UNCHANGED exc
    /\ trace' = Append(trace, "parse_table")
    /\ UNCHANGED <<runs, file, args, state_set, loaded, browser,
                   browser_session_id, msg_element, tour_availability_msg,
                   available_tours_table, notification_messages, warnings,
                   exit_status, otr>>

\* _scrape_tour, lines 116-125: parse the table; on any exception log it and
\* keep the raw markup instead; compare the result with the state.
scrape_parse_table ==
    /\ pc = "parse_table"
    /\ LET t == Tables[available_tours_table]
           p == _parse_available_tours_table(t)
           tour_table ==
               IF p.raised # "none"
               THEN code_block(outerHTML(t), "html")
               ELSE code_block(_format_available_tours_table(p.tour_details,
                                                             p.table_header), "text")
           r == set_field(state, "TOUR_TABLE", tour_table, TitleTable)
       IN  /\ tour_details' = p.tour_details
           /\ errors' = IF p.raised # "none"
                        THEN Append(errors, "Could not parse the table of available tours")
                        ELSE AppendN(errors, p.misses, "Could not find Reservation button")
           /\ state' = r.state
           /\ scrape_msgs' = scrape_msgs \o r.ret
    /\ trace' = Append(trace, "parse_table")
    /\ pc' = "reserve"
    /\ UNCHANGED <<runs, file, args, state_set, loaded, exc, browser,
                   browser_session_id, msg_element, tour_availability_msg,
                   available_tours_table, notification_messages, warnings,
                   exit_status, otr>>

\* run_bot, lines 67-75: _scrape_tour has returned; the condition of line 69
\* reads state.PRESS_RESERVE_BUTTON when a date range was given and a tour was
\* found, and that read raises AttributeError on a State without the field.
run_bot_reserve ==
    /\ pc = "reserve"
    /\ IF args.reserve_date_range # NoRange /\ tour_details # <<>>
       THEN IF "PRESS_RESERVE_BUTTON" \in DOMAIN state
            THEN /\ pc' = IF state["PRESS_RESERVE_BUTTON"] THEN "otr_select" ELSE "finally"
                 /\ UNCHANGED exc
            ELSE /\ exc' = "AttributeError"
                 /\ pc' = "finally"
       ELSE /\ pc' = "finally"
            /\ UNCHANGED exc
    /\ UNCHANGED <<runs, file, args, state, state_set, loaded, browser,
                   browser_session_id, msg_element, tour_availability_msg,
                   available_tours_table, tour_details, scrape_msgs,
                   notification_messages, warnings, errors, trace, exit_status, otr>>

\* run_bot, lines 75-77: the finally clause shuts the browser down on the way
\* out, with the list returned to main or with the exception in flight.
run_bot_finally ==
    /\ pc = "finally"
    /\ browser' = shut_down(browser)
    /\ trace' = Append(trace, "shut_down")
    /\ notification_messages' = IF exc = "none" THEN scrape_msgs ELSE notification_messages
    /\ pc' = "ctx_exit"
    /\ UNCHANGED <<runs, file, args, state, state_set, loaded, exc,
                   browser_session_id, msg_element, tour_availability_msg,
                   available_tours_table, tour_details, scrape_msgs, warnings,
                   errors, exit_status, otr>>

\* ---------------------------------------------------------------- main, 2

\* StoreWarningsErrors.__exit__: an Exception is stored as an error and
\* swallowed; any other BaseException leaves main, and the process ends.
ctx_exit ==
    /\ pc = "ctx_exit"
    /\ IF exc = "none"
       THEN /\ pc' = "post"
            /\ UNCHANGED <<errors, exc, exit_status>>
       ELSE IF IsException(exc)
       THEN /\ errors' = Append(errors, exc)
            /\ exc' = "none"
            /\ pc' = "post"
            /\ UNCHANGED exit_status
       ELSE /\ pc' = "done"
            /\ exit_status' = 130
            /\ UNCHANGED <<errors, exc>>
    /\ trace' = Append(trace, "ctx_exit")
    /\ UNCHANGED <<runs, file, args, state, state_set, loaded, browser,
                   browser_session_id, msg_element, tour_availability_msg,
                   available_tours_table, tour_details, scrape_msgs,
                   notification_messages, warnings, otr>>

\* A changed main that saves the state before it posts.
main_post_saves_first ==
    /\ pc = "post"
    /\ file' = IF state_set THEN save_to_file(state) ELSE file
    /\ IF /\ notification_messages # <<>> \/ warnings # <<>> \/ errors # <<>>
          /\ args.notify
       THEN \E ok \in BOOLEAN :
              /\ trace' = trace \o <<"save_to_file", "post_discord">>
              /\ IF ok
                 THEN /\ pc' = "exit"
                      /\ UNCHANGED <<exc, exit_status>>
                 ELSE /\ pc' = "done"
                      /\ exc' = "RequestException"
                      /\ exit_status' = 1
       ELSE /\ pc' = "exit"
            /\ trace' = Append(trace, "save_to_file")
            /\ UNCHANGED <<exc, exit_status>>
    /\ UNCHANGED <<runs, args, state, state_set, loaded, browser,
                   browser_session_id, msg_element, tour_availability_msg,
                   available_tours_table, tour_details, scrape_msgs,
                   notification_messages, warnings, errors, otr>>

\* A changed main that posts whether or not there is something to post and a
\* webhook to post it to.
main_post_unconditional ==
    /\ pc = "post"
    /\ \E ok \in BOOLEAN :
         /\ trace' = Append(trace, "post_discord")
         /\ IF ok
            THEN /\ pc' = "save"
                 /\ UNCHANGED <<exc, exit_status>>
            ELSE /\ pc' = "done"
                 /\ exc' = "RequestException"
                 /\ exit_status' = 1
    /\ UNCHANGED <<runs, file, args, state, state_set, loaded, browser,
                   browser_session_id, msg_element, tour_availability_msg,
                   available_tours_table, tour_details, scrape_msgs,
                   notification_messages, warnings, errors, otr>>

\* main, lines 35-42: post to Discord when there is something to post and a
\* webhook was given. An exception of post_discord leaves main.
main_post ==
    /\ pc = "post"
    /\ IF /\ notification_messages # <<>> \/ warnings # <<>> \/ errors # <<>>
          /\ args.notify
       THEN \E ok \in BOOLEAN :
              /\ trace' = Append(trace, "post_discord")
              /\ IF ok
                 THEN /\ pc' = "save"
                      /\ UNCHANGED <<exc, exit_status>>
                 ELSE /\ pc' = "done"
                      /\ exc' = "RequestException"
                      /\ exit_status' = 1
       ELSE /\ pc' = "save"
            /\ UNCHANGED <<trace, exc, exit_status>>
    /\ UNCHANGED <<runs, file, args, state, state_set, loaded, browser,
                   browser_session_id, msg_element, tour_availability_msg,
                   available_tours_table, tour_details, scrape_msgs,
                   notification_messages, warnings, errors, otr>>

\* A changed main that saves without looking whether a state was loaded.
main_save_unguarded ==
    /\ pc = "save"
    /\ file' = save_to_file(state)
    /\ trace' = Append(trace, "save_to_file")
    /\ pc' = "exit"
    /\ UNCHANGED <<runs, args, state, state_set, loaded, exc, browser,
                   browser_session_id, msg_element, tour_availability_msg,
                   available_tours_table, tour_details, scrape_msgs,
                   notification_messages, warnings, errors, exit_status, otr>>

\* main, lines 44-46: save the state when there is one.
main_save ==
    /\ pc = "save"
    /\ IF state_set
       THEN /\ file' = save_to_file(state)
            /\ trace' = Append(trace, "save_to_file")
       ELSE UNCHANGED <<file, trace>>
    /\ pc' = "exit"
    /\ UNCHANGED <<runs, args, state, state_set, loaded, exc, browser,
                   browser_session_id, msg_element, tour_availability_msg,
                   available_tours_table, tour_details, scrape_msgs,
                   notification_messages, warnings, errors, exit_status, otr>>

\* A changed exit that looks at the warnings before the errors.
main_exit_warnings_first ==
    /\ pc = "exit"
    /\ exit_status' = IF warnings # <<>> THEN 2 ELSE IF errors # <<>> THEN 1 ELSE 0
    /\ pc' = "done"
    /\ UNCHANGED <<runs, file, args, state, state_set, loaded, exc, browser,
                   browser_session_id, msg_element, tour_availability_msg,
                   available_tours_table, tour_details, scrape_msgs,
                   notification_messages, warnings, errors, trace, otr>>

\* main, lines 48-51: the exit status.
main_exit ==
    /\ pc = "exit"
    /\ exit_status' = IF errors # <<>> THEN 1 ELSE IF warnings # <<>> THEN 2 ELSE 0
    /\ pc' = "done"
    /\ UNCHANGED <<runs, file, args, state, state_set, loaded, exc, browser,
                   browser_session_id, msg_element, tour_availability_msg,
                   available_tours_table, tour_details, scrape_msgs,
                   notification_messages, warnings, errors, trace, otr>>

\* The scheduler starts the next execution: a new process, the same file.
new_run ==
    /\ pc = "done"
    /\ runs < MaxRuns
    /\ runs' = runs + 1
    /\ pc' = "main"
    /\ args' = Args(NoRange, FALSE)
    /\ state' = DefaultState
    /\ state_set' = FALSE
    /\ loaded' = DefaultState
    /\ exc' = "none"
    /\ browser' = "none"
    /\ browser_session_id' = ""
    /\ msg_element' = Absent
    /\ tour_availability_msg' = <<>>
    /\ available_tours_table' = 0
    /\ tour_details' = <<>>
    /\ scrape_msgs' = <<>>
    /\ notification_messages' = <<>>
    /\ warnings' = <<>>
    /\ errors' = <<>>
    /\ trace' = <<>>
    /\ exit_status' = NoExit
    /\ UNCHANGED <<file, otr>>

Next ==
    \/ main_enter
    \/ main_from_file
    \/ run_bot_start
    \/ run_bot_guard
    \/ run_bot_interrupt
    \/ scrape_open_url
    \/ scrape_next_msg
    \/ scrape_submit
    \/ scrape_availability
    \/ scrape_find_table
    \/ scrape_parse_table
    \/ run_bot_reserve
    \/ run_bot_finally
    \/ ctx_exit
    \/ main_post
    \/ main_save
    \/ main_exit
    \/ new_run

Spec == Init /\ [][Next]_vars

\* --------------------------------------------------- _open_tour_reservation

\* Rows of a table of available tours in the reservation routine's inputs.
MaxRows == 2

Min(a, b) == IF a <= b THEN a ELSE b
Max(a, b) == IF a >= b THEN a ELSE b

\* A changed range test that takes the bounds in the order given.
InRangeAsGiven(tour, range) ==
    LET d == strptime_mdY(tour.DATE).value
    IN  range[1] <= d /\ d <= range[2]

\* A changed range test that excludes the upper bound.
InRangeExclusive(tour, range) ==
    LET d == strptime_mdY(tour.DATE).value
    IN  Min(range[1], range[2]) <= d /\ d < Max(range[1], range[2])

\* min(reserve_date_range) <= strptime(tour.DATE) <= max(reserve_date_range)
InRange(tour, range) ==
    LET d == strptime_mdY(tour.DATE).value
    IN  Min(range[1], range[2]) <= d /\ d <= Max(range[1], range[2])

\* The indices of tours_in_range, in table order.
ToursInRangeIdx(details, range) ==
    {i \in 1..Len(details) : InRange(details[i], range)}

\* A changed selection that takes the last tour in range.
SelectedTourLast(details, range) ==
    LET idx == ToursInRangeIdx(details, range)
    IN  IF idx = {} THEN 0 ELSE CHOOSE i \in idx : \A j \in idx : j <= i

\* A changed selection that passes over tours in range without a button when a
\* later tour in range has one.
SelectedTourWithButton(details, range) ==
    LET idx == ToursInRangeIdx(details, range)
        btn == {i \in idx : details[i].RESERVE_BUTTON}
        from == IF btn = {} THEN idx ELSE btn
    IN  IF idx = {} THEN 0 ELSE CHOOSE i \in from : \A j \in from : i <= j

\* tours_in_range[0] as an index of tour_details; 0 when tours_in_range is empty.
SelectedTour(details, range) ==
    LET idx == ToursInRangeIdx(details, range)
    IN  IF idx = {} THEN 0 ELSE CHOOSE i \in idx : \A j \in idx : i <= j

\* The inputs of the routine: a list of tours and a date range.
TourDates == {D_Jan10, D_Jan20, D_Feb05, D_Bad}
Tours == {Tour(d, Morning, b) : d \in TourDates, b \in BOOLEAN}
TourLists == UNION {[1..n -> Tours] : n \in 0..MaxRows}
DateRanges == {<<Jan10, Jan20>>, <<Jan20, Jan10>>, <<Feb05, Feb05>>}

\* The countdown clock's texts and the operator's answers.
ClockTexts == {<<"07", ":", "30">>, <<"00", ":", "05">>, <<"00", ":", "00">>,
               <<"59", ":", "59">>, <<"1", ":", "30">>, <<"60", ":", "00">>,
               <<"soon">>}
Answers == {<<"y">>, <<WS, "YES", WS>>, <<"True">>, <<"n">>, <<"yes", "please">>, <<>>}

\* str.lower(), token by token.
LowerTok(w) ==
    IF w = "YES" THEN "yes" ELSE IF w = "True" THEN "true" ELSE w

\* A changed lower() that leaves the letters as typed.
lower_asis(t) == t

lower(t) == [i \in 1..Len(t) |-> LowerTok(t[i])]

Affirmative == {<<"y">>, <<"yes">>, <<"t">>, <<"true">>}

\* A changed wait without the five minutes.
timedelta_to_wait_nomargin(time_to_wait) ==
    time_to_wait.minute * 60 + time_to_wait.second

\* timedelta(minutes=time_to_wait.minute + 5, seconds=time_to_wait.second),
\* line 369, in seconds.
timedelta_to_wait(time_to_wait) ==
    (time_to_wait.minute + 5) * 60 + time_to_wait.second

\* _open_tour_reservation called on a list of tours with a date range.
InitReserve ==
    /\ pc = "otr_select"
    /\ runs = 1
    /\ file = MissingFile
    /\ args = Args(NoRange, FALSE)
    /\ state = DefaultState
    /\ state_set = TRUE
    /\ loaded = DefaultState
    /\ exc = "none"
    /\ browser = "alive"
    /\ browser_session_id = "s1"
    /\ msg_element = Absent
    /\ tour_availability_msg = <<>>
    /\ available_tours_table = 0
    /\ tour_details \in TourLists
    /\ scrape_msgs = <<>>
    /\ notification_messages = <<>>
    /\ warnings = <<>>
    /\ errors = <<>>
    /\ trace = <<>>
    /\ exit_status = NoExit
    /\ \E range \in DateRanges : otr = [OtrIdle EXCEPT !.range = range]

OtrFrame == <<runs, file, args, state, state_set, loaded, browser,
              browser_session_id, msg_element, tour_availability_msg,
              available_tours_table, tour_details, scrape_msgs,
              notification_messages, errors, exit_status>>

\* A changed selection that logs the press below warning level, so that the
\* capture handler does not store it.
otr_select_quiet ==
    /\ pc = "otr_select"
    /\ LET sel == SelectedTour(tour_details, otr.range)
       IN  IF \E i \in 1..Len(tour_details) : ~strptime_mdY(tour_details[i].DATE).ok
           THEN /\ exc' = "ValueError"
                /\ pc' = "otr_raised"
                /\ UNCHANGED <<otr, trace>>
           ELSE IF sel = 0
           THEN /\ otr' = [otr EXCEPT !.ret = "True"]
                /\ pc' = "otr_done"
                /\ UNCHANGED <<exc, trace>>
           ELSE IF ~tour_details[sel].RESERVE_BUTTON
           THEN /\ exc' = "NoSuchElementException"
                /\ pc' = "otr_raised"
                /\ UNCHANGED <<otr, trace>>
           ELSE \E click_ok \in BOOLEAN :
                  /\ trace' = Append(trace, "click_reserve")
                  /\ IF click_ok
                     THEN /\ otr' = [otr EXCEPT !.clicked = sel]
                          /\ pc' = "otr_countdown"
                          /\ UNCHANGED exc
                     ELSE /\ exc' = "WebDriverException"
                          /\ pc' = "otr_raised"
                          /\ UNCHANGED otr
    /\ UNCHANGED warnings
    /\ UNCHANGED OtrFrame

\* _open_tour_reservation, lines 338-360: build tours_in_range (strptime of a
\* date that does not parse raises ValueError), return True when it is empty,
\* else press the Reserve button of its first tour (NoSuchElementException
\* when that tour has no button). The click can fail in the driver.
otr_select ==
    /\ pc = "otr_select"
    /\ LET sel == SelectedTour(tour_details, otr.range)
       IN  IF \E i \in 1..Len(tour_details) : ~strptime_mdY(tour_details[i].DATE).ok
           THEN /\ exc' = "ValueError"
                /\ pc' = "otr_raised"
                /\ UNCHANGED <<otr, warnings, trace>>
           ELSE IF sel = 0
           THEN /\ otr' = [otr EXCEPT !.ret = "True"]
                /\ pc' = "otr_done"
                /\ UNCHANGED <<exc, warnings, trace>>
           ELSE IF ~tour_details[sel].RESERVE_BUTTON
           THEN /\ exc' = "NoSuchElementException"
                /\ pc' = "otr_raised"
                /\ UNCHANGED <<otr, warnings, trace>>
           ELSE \E click_ok \in BOOLEAN :
                  /\ warnings' = Append(warnings, "Pressing button for tour")
                  /\ trace' = Append(trace, "click_reserve")
                  /\ IF click_ok
                     THEN /\ otr' = [otr EXCEPT !.clicked = sel]
                          /\ pc' = "otr_countdown"
                          /\ UNCHANGED exc
                     ELSE /\ exc' = "WebDriverException"
                          /\ pc' = "otr_raised"
                          /\ UNCHANGED otr
    /\ UNCHANGED OtrFrame

\* _open_tour_reservation, lines 362-377: wait for the countdown clock
\* (TimeoutException when it does not show), parse it as minutes:seconds
\* (ValueError when it is not), and add five minutes.
otr_countdown ==
    /\ pc = "otr_countdown"
    /\ \E shown \in BOOLEAN, clock \in ClockTexts :
         IF ~shown
         THEN /\ exc' = "TimeoutException"
              /\ pc' = "otr_raised"
              /\ UNCHANGED otr
         ELSE LET time_to_wait == strptime_MS(clock)
              IN  IF ~time_to_wait.ok
                  THEN /\ exc' = "ValueError"
                       /\ pc' = "otr_raised"
                       /\ otr' = [otr EXCEPT !.clock = clock]
                  ELSE /\ otr' = [otr EXCEPT
                                    !.clock = clock,
                                    !.wait = timedelta_to_wait(time_to_wait)]
                       /\ pc' = "otr_sleep"
                       /\ UNCHANGED exc
    /\ trace' = Append(trace, "countdown")
    /\ UNCHANGED <<warnings>>
    /\ UNCHANGED OtrFrame

\* A changed sleep that lets the operator's interrupt leave the routine.
otr_sleep_raises ==
    /\ pc = "otr_sleep"
    /\ \E interrupted \in BOOLEAN :
         /\ otr' = [otr EXCEPT !.slept = IF interrupted THEN 0 ELSE otr.wait]
         /\ exc' = IF interrupted THEN "KeyboardInterrupt" ELSE exc
         /\ pc' = IF interrupted THEN "otr_raised" ELSE "otr_confirm"
    /\ trace' = Append(trace, "sleep")
    /\ UNCHANGED <<warnings>>
    /\ UNCHANGED OtrFrame

\* _open_tour_reservation, lines 378-383: sleep for the wait, or until the
\* operator interrupts it (KeyboardInterrupt is caught; slept is then 0).
otr_sleep ==
    /\ pc = "otr_sleep"
    /\ \E interrupted \in BOOLEAN :
         otr' = [otr EXCEPT !.slept = IF interrupted THEN 0 ELSE otr.wait]
    /\ trace' = Append(trace, "sleep")
    /\ pc' = "otr_confirm"
    /\ UNCHANGED <<exc, warnings>>
    /\ UNCHANGED OtrFrame

\* A changed confirmation that goes back to the selection when the booking was
\* not confirmed.
otr_confirm_loop ==
    /\ pc = "otr_confirm"
    /\ \E isatty \in BOOLEAN, made_booking \in Answers :
         LET ret == IF isatty /\ strip(lower(made_booking)) \in Affirmative
                    THEN "False" ELSE "True"
         IN  /\ trace' = IF isatty THEN Append(trace, "input") ELSE trace
             /\ otr' = [otr EXCEPT !.isatty = isatty,
                                   !.answer = IF isatty THEN made_booking ELSE <<>>,
                                   !.ret = ret]
             /\ pc' = IF ret = "True" THEN "otr_select" ELSE "otr_done"
    /\ UNCHANGED <<exc, warnings>>
    /\ UNCHANGED OtrFrame

\* _open_tour_reservation, lines 385-402: on a terminal ask whether the booking
\* succeeded (an interrupt at the prompt keeps the default), else log a
\* warning; return whether to go on pressing Reserve.
otr_confirm ==
    /\ pc = "otr_confirm"
    /\ \E isatty \in BOOLEAN, interrupted \in BOOLEAN, made_booking \in Answers :
         IF isatty
         THEN /\ trace' = Append(trace, "input")
              /\ UNCHANGED warnings
              /\ IF interrupted
                 THEN otr' = [otr EXCEPT !.isatty = TRUE, !.ret = "True"]
                 ELSE otr' = [otr EXCEPT
                                !.isatty = TRUE,
                                !.answer = made_booking,
                                !.ret = IF strip(lower(made_booking)) \in Affirmative
                                        THEN "False" ELSE "True"]
         ELSE /\ warnings' = Append(warnings, "Cannot read input from stdin")
              /\ otr' = [otr EXCEPT !.isatty = FALSE, !.ret = "True"]
              /\ UNCHANGED trace
    /\ pc' = "otr_done"
    /\ UNCHANGED exc
    /\ UNCHANGED OtrFrame

NextReserve ==
    \/ otr_select
    \/ otr_countdown
    \/ otr_sleep
    \/ otr_confirm

\* _open_tour_reservation alone, from every list of tours and date range.
SpecReserve == InitReserve /\ [][NextReserve]_vars

\* ------------------------------- the run from the call of line 70 onwards

\* run_bot at line 70: _open_tour_reservation is called with the scraped
\* tours and the date range of the command line, inside main's capture scope,
\* with or without a notification destination.
InitReserveRun ==
    /\ pc = "otr_select"
    /\ runs = 1
    /\ file = MissingFile
    /\ \E range \in DateRanges, notify \in BOOLEAN :
         /\ args = Args(range, notify)
         /\ otr = [OtrIdle EXCEPT !.range = range]
    /\ state = DefaultState
    /\ state_set = TRUE
    /\ loaded = DefaultState
    /\ exc = "none"
    /\ browser = "alive"
    /\ browser_session_id = "s1"
    /\ msg_element = Absent
    /\ tour_availability_msg = <<>>
    /\ available_tours_table = 0
    /\ tour_details \in TourLists
    /\ scrape_msgs = <<>>
    /\ notification_messages = <<>>
    /\ warnings = <<>>
    /\ errors = <<>>
    /\ trace = <<>>
    /\ exit_status = NoExit

\* An operator interrupt (KeyboardInterrupt) in _open_tour_reservation outside
\* the two places that catch it (the sleep of line 379 and the prompt of line
\* 387): during the click or the wait for the countdown clock.
otr_interrupt ==
    /\ pc \in {"otr_select", "otr_countdown"}
    /\ exc' = "KeyboardInterrupt"
    /\ pc' = "otr_raised"
    /\ UNCHANGED <<otr, warnings, trace>>
    /\ UNCHANGED OtrFrame

\* run_bot, lines 70-75: _open_tour_reservation has returned or raised. Its
\* result goes to set_field('PRESS_RESERVE_BUTTON', ...), whose notification is
\* dropped and which raises AttributeError on a State without the field.
run_bot_reserve_return ==
    /\ pc \in {"otr_done", "otr_raised"}
    /\ IF pc = "otr_raised"
       THEN UNCHANGED <<state, exc>>
       ELSE LET r == set_field(state, "PRESS_RESERVE_BUTTON", otr.ret = "True",
                               "Continue pressing reserve button")
            IN  /\ state' = r.state
                /\ exc' = r.raised
    /\ pc' = "finally"
    /\ UNCHANGED <<runs, file, args, state_set, loaded, browser,
                   browser_session_id, msg_element, tour_availability_msg,
                   available_tours_table, tour_details, scrape_msgs,
                   notification_messages, warnings, errors, trace, exit_status, otr>>

NextReserveRun ==
    \/ otr_select
    \/ otr_countdown
    \/ otr_sleep
    \/ otr_confirm
    \/ otr_interrupt
    \/ run_bot_reserve_return
    \/ run_bot_finally
    \/ ctx_exit
    \/ main_post
    \/ main_save
    \/ main_exit

\* The rest of a run from the call of _open_tour_reservation to the exit of
\* the process.
SpecReserveRun == InitReserveRun /\ [][NextReserveRun]_vars

\* ----------------------------------------------------- two overlapping runs

\* Two executions of the program on one machine (two scheduler entries, or a
\* start by hand during a scheduled run). In this specification pc, runs, exc,
\* browser and browser_session_id hold one value for each of them.
Overlapping == {1, 2}

\* The driver processes psutil.process_iter() shows at this moment: the
\* chromedriver of every run whose driver has been started and not shut down.
webdriver_procs == {q \in Overlapping : browser[q] = "alive"}

InitOverlap ==
    /\ pc = [p \in Overlapping |-> "start_new_session"]
    /\ runs = [p \in Overlapping |-> 1]
    /\ exc = [p \in Overlapping |-> "none"]
    /\ browser = [p \in Overlapping |-> "none"]
    /\ browser_session_id = [p \in Overlapping |-> ""]
    /\ file = MissingFile
    /\ args = Args(NoRange, FALSE)
    /\ state = DefaultState
    /\ state_set = FALSE
    /\ loaded = DefaultState
    /\ msg_element = Absent
    /\ tour_availability_msg = <<>>
    /\ available_tours_table = 0
    /\ tour_details = <<>>
    /\ scrape_msgs = <<>>
    /\ notification_messages = <<>>
    /\ warnings = <<>>
    /\ errors = <<>>
    /\ trace = <<>>
    /\ exit_status = NoExit
    /\ otr = OtrIdle

OverlapFrame == <<file, args, state, state_set, loaded, msg_element,
                  tour_availability_msg, available_tours_table, tour_details,
                  scrape_msgs, notification_messages, warnings, errors, trace,
                  exit_status, otr>>

\* start_new_session, lines 204-206: look through the processes of the machine
\* and raise ProcessLookupError when one of them is a chromedriver.
start_new_session_check ==
    /\ \E p \in Overlapping :
         /\ pc[p] = "start_new_session"
         /\ IF webdriver_procs # {}
            THEN /\ exc' = [exc EXCEPT ![p] = "ProcessLookupError"]
                 /\ pc' = [pc EXCEPT ![p] = "done"]
            ELSE /\ pc' = [pc EXCEPT ![p] = "start_driver"]
                 /\ UNCHANGED exc
    /\ UNCHANGED <<runs, browser, browser_session_id>>
    /\ UNCHANGED OverlapFrame

\* start_new_session, lines 208-231: build the options and construct the
\* ChromeWebDriver, which starts this run's chromedriver process.
start_new_session_start ==
    /\ \E p \in Overlapping, id \in NewSessionIds :
         /\ pc[p] = "start_driver"
         /\ browser' = [browser EXCEPT ![p] = "alive"]
         /\ browser_session_id' = [browser_session_id EXCEPT ![p] = id]
         /\ pc' = [pc EXCEPT ![p] = "try"]
    /\ UNCHANGED <<runs, exc>>
    /\ UNCHANGED OverlapFrame

\* run_bot, lines 59-77: the run uses its driver and shuts it down on the way
\* out (line 61 or the finally clause of line 77).
run_bot_shut_down ==
    /\ \E p \in Overlapping :
         /\ pc[p] = "try"
         /\ browser' = [browser EXCEPT ![p] = shut_down(browser[p])]
         /\ pc' = [pc EXCEPT ![p] = "done"]
    /\ UNCHANGED <<runs, exc, browser_session_id>>
    /\ UNCHANGED OverlapFrame

\* The scheduler starts the next execution in the place of one that has ended.
overlap_new_run ==
    /\ \E p \in Overlapping :
         /\ pc[p] = "done"
         /\ runs[p] < MaxRuns
         /\ runs' = [runs EXCEPT ![p] = runs[p] + 1]
         /\ pc' = [pc EXCEPT ![p] = "start_new_session"]
         /\ exc' = [exc EXCEPT ![p] = "none"]
         /\ browser' = [browser EXCEPT ![p] = "none"]
         /\ browser_session_id' = [browser_session_id EXCEPT ![p] = ""]
    /\ UNCHANGED OverlapFrame

NextOverlap ==
    \/ start_new_session_check
    \/ start_new_session_start
    \/ run_bot_shut_down
    \/ overlap_new_run

\* Two runs whose steps interleave in every order.
SpecOverlap == InitOverlap /\ [][NextOverlap]_vars

\* ------------------------------------------- the table of available tours

\* The orders the three columns of a table can have.
ColumnOrders ==
    {<<"Date", "Time", "Reserve">>, <<"Date", "Reserve", "Time">>,
     <<"Time", "Date", "Reserve">>, <<"Time", "Reserve", "Date">>,
     <<"Reserve", "Date", "Time">>, <<"Reserve", "Time", "Date">>}

\* The header cell of a column, as the page shows it.
HeaderOf(column) ==
    IF column = "Date" THEN <<WS>> \o H_Date
    ELSE IF column = "Time" THEN H_Time \o <<WS>>
    ELSE H_Reserve

\* The rows of a table: a date, the times, and a Reserve button or the word
\* "Full" without a button.
TableRows ==
    [Date : {D_Jan10, <<WS>> \o D_Jan20, D_Bad},
     Time : {Morning, Noon \o <<WS>>},
     Reserve : {Cell(<<"Reserve">>, TRUE), Cell(<<"Full">>, FALSE)}]

\* The content cell of a row in a column.
CellOf(row, column) ==
    IF column = "Reserve" THEN row.Reserve ELSE Cell(row[column], FALSE)

\* The table element with the given column order and rows.
TableOf(order, rows) ==
    [header |-> [i \in 1..3 |-> HeaderOf(order[i])],
     cells  |-> [k \in 1..(3 * Len(rows)) |->
                   CellOf(rows[((k - 1) \div 3) + 1], order[((k - 1) % 3) + 1])]]

\* The tables a page can show, of up to MaxRows rows.
TablePool ==
    {TableOf(order, rows) :
        order \in ColumnOrders,
        rows \in UNION {[1..n -> TableRows] : n \in 1..MaxRows}}

\* _scrape_tour at line 116, with a table element found on the page.
InitTable ==
    /\ pc = "tbl_parse"
    /\ runs = 1
    /\ file = MissingFile
    /\ args = Args(NoRange, FALSE)
    /\ state = DefaultState
    /\ state_set = TRUE
    /\ loaded = DefaultState
    /\ exc = "none"
    /\ browser = "alive"
    /\ browser_session_id = "s1"
    /\ msg_element = Absent
    /\ tour_availability_msg = <<>>
    /\ available_tours_table \in TablePool
    /\ tour_details = <<>>
    /\ scrape_msgs = <<>>
    /\ notification_messages = <<>>
    /\ warnings = <<>>
    /\ errors = <<>>
    /\ trace = <<>>
    /\ exit_status = NoExit
    /\ otr = OtrIdle

\* _scrape_tour, lines 116-125, on the table element itself: parse it, format
\* the tours, and hand the text to set_field.
tbl_parse ==
    /\ pc = "tbl_parse"
    /\ LET t == available_tours_table
           p == _parse_available_tours_table(t)
           tour_table ==
               IF p.raised # "none"
               THEN code_block(outerHTML(t), "html")
               ELSE code_block(_format_available_tours_table(p.tour_details,
                                                             p.table_header), "text")
           r == set_field(state, "TOUR_TABLE", tour_table, TitleTable)
       IN  /\ tour_details' = p.tour_details
           /\ errors' = IF p.raised # "none"
                        THEN Append(errors, "Could not parse the table of available tours")
                        ELSE AppendN(errors, p.misses, "Could not find Reservation button")
           /\ state' = r.state
           /\ scrape_msgs' = scrape_msgs \o r.ret
    /\ trace' = Append(trace, "parse_table")
    /\ pc' = "tbl_done"
    /\ UNCHANGED <<runs, file, args, state_set, loaded, exc, browser,
                   browser_session_id, msg_element, tour_availability_msg,
                   available_tours_table, notification_messages, warnings,
                   exit_status, otr>>

\* The table step alone, from every table of the pool.
SpecTable == InitTable /\ [][tbl_parse]_vars

\* =================================================================== claims

Range(seq) == {seq[i] : i \in 1..Len(seq)}

Count(e, seq) == Cardinality({i \in 1..Len(seq) : seq[i] = e})

\* The notifications of a list that carry the given title.
WithTitle(msgs, title) == SelectSeq(msgs, LAMBDA n : n.title = title)

\* The browser operations of the scrape pipeline and of the reservation.
ScrapeOps == {"open_url", "find_next_msg", "submit_form", "get_availability",
              "find_table", "screenshot", "parse_table", "click_reserve"}

\* Values a caller can hand to set_field, per field.
FieldValues(f) ==
    IF f = "BROWSER_SESSION" THEN {""} \cup NewSessionIds
    ELSE {<<>>, DefaultState.NEXT_TOUR_MSG, <<"No", "tours", "found.">>}
         \cup NextMsgTexts

\* C1: set_field is a compare-and-set. For every field and every new value: a
\* value equal to the field's returns no notification and leaves the state as
\* it is; any other value is stored in that field only, and the notification
\* returned carries the given title and the new value.
C1_SetFieldCompareAndSet ==
    \A f \in Fields : \A v \in FieldValues(f) :
        \A title \in {TitleNextMsg, TitleAvailability, TitleTable} :
            LET r == set_field(state, f, v, title)
            IN  IF v = state[f]
                THEN r.ret = <<>> /\ r.state = state
                ELSE /\ r.state[f] = v
                     /\ \A g \in Fields \ {f} : r.state[g] = state[g]
                     /\ r.ret = <<Notification(title, v)>>

\* C1 witness: the pipeline has called set_field twice on a loaded state, once
\* with the value the field had and once with another one.
C1_Witness ==
    /\ pc = "find_table"
    /\ state.NEXT_TOUR_MSG = loaded.NEXT_TOUR_MSG
    /\ state.TOUR_AVAILABLE # loaded.TOUR_AVAILABLE
    /\ scrape_msgs = <<Notification(TitleAvailability, tour_availability_msg)>>

\* Positions of _scrape_tour after the availability step.
AfterAvailability == {"find_table", "parse_table", "reserve"}

\* C2: once the scrape has passed the availability step, an availability text
\* that differs from the loaded summary has produced exactly one notification
\* titled "Tour availability has changed" with the new text, and the state
\* holds the new text; an equal text has produced none.
C2_AvailabilityNotification ==
    pc \in AfterAvailability =>
        LET ns == WithTitle(scrape_msgs, TitleAvailability)
        IN  /\ state.TOUR_AVAILABLE = tour_availability_msg
            /\ IF tour_availability_msg # loaded.TOUR_AVAILABLE
               THEN ns = <<Notification(TitleAvailability, tour_availability_msg)>>
               ELSE ns = <<>>

\* C2 witness: the summary "No tours found." was loaded and the page now
\* counts available tours.
C2_Witness ==
    /\ pc \in AfterAvailability
    /\ loaded.TOUR_AVAILABLE = <<"No", "tours", "found.">>
    /\ tour_availability_msg = <<"3", "tours", "available">>
    /\ WithTitle(scrape_msgs, TitleAvailability) # <<>>

TitleRank(title) ==
    IF title = TitleNextMsg THEN 1 ELSE IF title = TitleAvailability THEN 2
    ELSE IF title = TitleTable THEN 3 ELSE 0

\* Release message first, availability second, table third, each at most once.
InFixedOrder(msgs) ==
    /\ \A i \in 1..Len(msgs) : TitleRank(msgs[i].title) > 0
    /\ \A i, j \in 1..Len(msgs) :
         i < j => TitleRank(msgs[i].title) < TitleRank(msgs[j].title)

\* C3: the list _scrape_tour builds, and the list run_bot returns to main, hold
\* the release-message, availability and table notifications in that order,
\* each at most once.
C3_NotificationOrder ==
    InFixedOrder(scrape_msgs) /\ InFixedOrder(notification_messages)

\* C3 witness: a run has returned all three notifications.
C3_Witness ==
    /\ pc = "post"
    /\ Len(notification_messages) = 3

\* The session guard has raised in this execution.
GuardAborted == exc = "ValueError" \/ "ValueError" \in Range(errors)

\* Positions of an execution after the session guard.
AfterGuard == {"open_url", "next_msg", "submit", "availability", "find_table",
               "parse_table", "reserve", "finally", "ctx_exit", "post", "save",
               "exit", "done"}

\* C4: when the new browser's session identifier equals the loaded one, the
\* run aborts with an error, the browser is shut down, and no scraping step
\* is performed in that run.
C4_SessionGuard ==
    (/\ pc \in AfterGuard
     /\ "start_new_session" \in Range(trace)
     /\ browser # "none"
     /\ browser_session_id = loaded.BROWSER_SESSION)
    => /\ GuardAborted
       /\ browser = "closed"
       /\ "shut_down" \in Range(trace)
       /\ Range(trace) \cap ScrapeOps = {}
       /\ exit_status \in {NoExit, 1}

\* C4 witness: an execution aborted by the guard has ended.
C4_Witness ==
    /\ pc = "done"
    /\ browser_session_id = loaded.BROWSER_SESSION
    /\ "ValueError" \in Range(errors)
    /\ exit_status = 1

\* The exceptions the steps after the session guard raise.
PipelineExceptions == {"NoSuchElementException", "RuntimeError", "TimeoutException",
                       "WebDriverException", "AttributeError"}

\* C5: when the session guard has passed and a later step has raised an
\* exception, the state written at the end of the run holds the new browser
\* session identifier.
C5_SessionWrittenBeforeWork ==
    (/\ "save_to_file" \in Range(trace)
     /\ browser # "none"
     /\ browser_session_id # loaded.BROWSER_SESSION
     /\ Range(errors) \cap PipelineExceptions # {})
    => /\ file.kind = "json"
       /\ file.val.BROWSER_SESSION = browser_session_id

\* C5 witness: the results never showed (TimeoutException), and the run has
\* saved its state.
C5_Witness ==
    /\ pc = "exit"
    /\ "TimeoutException" \in Range(errors)
    /\ "save_to_file" \in Range(trace)
    /\ loaded.BROWSER_SESSION = "s1"
    /\ file.val.BROWSER_SESSION = "s2"

AfterRunBot == {"ctx_exit", "post", "save", "exit", "done"}

\* C7: a browser session started in a run is shut down before run_bot ends, on
\* every exit path, hence before the state is saved and before the process
\* exits.
C7_BrowserShutDown ==
    /\ (pc \in AfterRunBot /\ browser # "none") =>
         /\ browser # "alive"
         /\ "shut_down" \in Range(trace)
    /\ ("save_to_file" \in Range(trace) \/ exit_status # NoExit) => browser # "alive"

\* C7 witness: the pipeline raised with the browser open, and the process has
\* exited with the browser closed.
C7_Witness ==
    /\ pc = "done"
    /\ "TimeoutException" \in Range(errors)
    /\ browser = "closed"
    /\ "save_to_file" \in Range(trace)

\* A state file that is missing or malformed: not JSON, not a JSON object, or
\* an object with unknown or missing fields.
Malformed(f) == f.kind # "json" \/ f.keys # Fields

\* C8 as the specification states it: loading a missing or malformed state
\* file does not fail the run; load returns the default state (the defaults of
\* the fields that are missing, when only fields are missing) and the run goes
\* on to start the browser.
C8_Original ==
    (trace = <<"from_file">> /\ Malformed(file)) =>
        /\ pc = "start_new_session"
        /\ exc = "none"
        /\ state_set
        /\ state = IF file.kind = "json" /\ file.keys \subseteq Fields
                   THEN file.val ELSE DefaultState

\* The notifications about the next tour message that the scrape has produced.
NextMsgNotifications == WithTitle(scrape_msgs, TitleNextMsg)

\* C9 as the specification states it: with the message element absent, the
\* next-release message keeps the loaded value and no notification is produced.
C9_Original ==
    (pc = "submit" /\ msg_element = Absent) =>
        /\ state.NEXT_TOUR_MSG = loaded.NEXT_TOUR_MSG
        /\ NextMsgNotifications = <<>>

\* C9, amended: with the message element absent, the next-release message
\* becomes the default "(empty)": a loaded "(empty)" is kept without a
\* notification, any other loaded value is replaced and one "Next tour message
\* has changed" notification with the content "(empty)" is produced.
C9_AbsentMessageResets ==
    (pc = "submit" /\ msg_element = Absent) =>
        /\ state.NEXT_TOUR_MSG = <<"(empty)">>
        /\ NextMsgNotifications =
             IF loaded.NEXT_TOUR_MSG = <<"(empty)">> THEN <<>>
             ELSE <<Notification(TitleNextMsg, <<"(empty)">>)>>

\* C9 witness: a message was loaded and the page shows none.
C9_Witness ==
    /\ pc = "submit"
    /\ msg_element = Absent
    /\ loaded.NEXT_TOUR_MSG = <<"Tours", "open", "soon">>
    /\ state.NEXT_TOUR_MSG = <<"(empty)">>

\* Row i of tour_details has a date within the range of the call, both bounds
\* included, whichever bound was given first.
C10_RowInRange(i) ==
    LET p == strptime_mdY(tour_details[i].DATE)
        a == otr.range[1]
        b == otr.range[2]
    IN  /\ p.ok
        /\ (a <= p.value /\ p.value <= b) \/ (b <= p.value /\ p.value <= a)

C10_AllDatesParse == \A i \in 1..Len(tour_details) : strptime_mdY(tour_details[i].DATE).ok

\* C10: the Reserve control that is clicked belongs to the first row, in table
\* order, whose date is within [min(range), max(range)], bounds included and in
\* either order; when no row is in range nothing is clicked and the decision
\* returned is to keep pressing Reserve.
C10_FirstRowInRange ==
    /\ otr.clicked # 0 =>
         /\ otr.clicked \in 1..Len(tour_details)
         /\ C10_RowInRange(otr.clicked)
         /\ \A j \in 1..(otr.clicked - 1) : ~C10_RowInRange(j)
    /\ (pc \notin {"otr_select", "otr_raised"} /\ \E i \in 1..Len(tour_details) : C10_RowInRange(i))
         => otr.clicked # 0
    /\ (\A i \in 1..Len(tour_details) : ~C10_RowInRange(i)) =>
         /\ otr.clicked = 0
         /\ "click_reserve" \notin Range(trace)
         /\ otr.ret # "False"
         /\ (pc # "otr_select" /\ C10_AllDatesParse) => (pc = "otr_done" /\ otr.ret = "True")

\* C10 witness: the range was given as (Jan 20, Jan 10); the first row is out
\* of range and the second, on the bound Jan 20, was clicked.
C10_Witness ==
    /\ otr.range = <<Jan20, Jan10>>
    /\ Len(tour_details) = 2
    /\ tour_details[1].DATE = D_Feb05
    /\ tour_details[2].DATE = D_Jan20
    /\ otr.clicked = 2
    /\ pc = "otr_done"

\* The first row, in table order, whose date parses and is within the range of
\* the call; 0 when there is none.
C11_FirstRowInRange ==
    IF \E i \in 1..Len(tour_details) : C10_RowInRange(i)
    THEN CHOOSE i \in 1..Len(tour_details) :
           C10_RowInRange(i) /\ \A j \in 1..(i - 1) : ~C10_RowInRange(j)
    ELSE 0

\* C11 as the specification states it: a row whose date does not parse as
\* month/day/year is passed over; when a row after it is in range, the
\* selection has gone on to that row (it was clicked, or the attempt to press
\* its control has failed) and has not ended on the date that does not parse.
C11_Original ==
    (/\ pc # "otr_select"
     /\ \E i \in 1..Len(tour_details) :
          /\ ~strptime_mdY(tour_details[i].DATE).ok
          /\ \E j \in (i + 1)..Len(tour_details) : C10_RowInRange(j))
    => /\ ~(exc = "ValueError" /\ trace = <<>>)
       /\ \/ otr.clicked = C11_FirstRowInRange
          \/ pc = "otr_raised" /\ exc \in {"NoSuchElementException", "WebDriverException"}

\* The countdown text of the call as minutes and seconds, read off its digits.
C13_Seconds == NumTok[otr.clock[1]] * 60 + NumTok[otr.clock[3]]

\* C13: once the Reserve control is pressed and the countdown reads mm:ss with
\* 0 <= mm, ss <= 59, the wait is the countdown plus exactly 5 minutes (07:30
\* gives 750 seconds), and the operator is asked only after that wait has
\* elapsed or was interrupted.
C13_WaitIsCountdownPlusFive ==
    /\ pc \in {"otr_sleep", "otr_confirm", "otr_done"} /\ otr.clicked # 0 =>
         /\ Len(otr.clock) = 3
         /\ NumTok[otr.clock[1]] \in 0..59 /\ NumTok[otr.clock[3]] \in 0..59
         /\ otr.wait = C13_Seconds + 300
         /\ otr.clock = <<"07", ":", "30">> => otr.wait = 750
    /\ pc \in {"otr_select", "otr_countdown", "otr_sleep"} =>
         "input" \notin Range(trace) /\ otr.ret # "False"
    /\ "input" \in Range(trace) =>
         /\ "sleep" \in Range(trace)
         /\ otr.slept \in {0, otr.wait}

\* C13 witness: the countdown read 07:30, the wait of 12 minutes 30 seconds has
\* elapsed, and the operator was asked.
C13_Witness ==
    /\ pc = "otr_done"
    /\ otr.clock = <<"07", ":", "30">>
    /\ otr.wait = 750
    /\ otr.slept = 750
    /\ "input" \in Range(trace)

\* C14: an operator interrupt during the countdown wait ends the wait early;
\* the routine goes on to the confirmation step, no exception is in flight, no
\* error is recorded, and the routine returns a decision.
C14_InterruptEndsWait ==
    (otr.wait >= 0 /\ otr.slept >= 0 /\ otr.slept < otr.wait) =>
        /\ pc \in {"otr_confirm", "otr_done"}
        /\ exc = "none"
        /\ errors = <<>>
        /\ pc = "otr_done" => otr.ret \in {"True", "False"}

\* C14 witness: a wait of 750 seconds was interrupted at once, and the operator
\* has then confirmed the booking.
C14_Witness ==
    /\ pc = "otr_done"
    /\ otr.wait = 750
    /\ otr.slept = 0
    /\ trace = <<"click_reserve", "countdown", "sleep", "input">>
    /\ otr.ret = "False"

\* The answers of the operator that are an affirmative token once trimmed and
\* put in lower case.
C15_Yes == {<<"y">>, <<WS, "YES", WS>>, <<"True">>}

\* C15: the decision is "stop pressing Reserve" exactly when the operator was
\* asked on an interactive channel and the answer, trimmed and in lower case,
\* is y, yes, t or true; any other answer, an interrupt at the prompt, no
\* interactive channel and no row in range give "keep pressing Reserve".
C15_Decision ==
    /\ otr.ret = "False" <=>
         /\ pc = "otr_done"
         /\ otr.isatty
         /\ "input" \in Range(trace)
         /\ otr.answer \in C15_Yes
    /\ pc = "otr_done" => otr.ret \in {"True", "False"}
    /\ pc # "otr_done" => otr.ret = None

\* C15 witness: the operator has answered " YES " and the decision is to stop.
C15_Witness ==
    /\ pc = "otr_done"
    /\ otr.isatty
    /\ otr.answer = <<WS, "YES", WS>>
    /\ otr.ret = "False"

\* The steps of the reservation routine, in their order.
C17_Steps == <<"click_reserve", "countdown", "sleep", "input">>

\* C17: the steps of the routine occur only in the order press Reserve, wait
\* for the countdown, ask the operator, decide, each at most once; at most one
\* Reserve control is clicked per call, also when several rows are in range.
C17_OneAttemptInOrder ==
    /\ \E n \in 0..Len(C17_Steps) : trace = SubSeq(C17_Steps, 1, n)
    /\ Count("click_reserve", trace) <= 1
    /\ otr.ret # None => pc = "otr_done"
    /\ pc \in {"otr_countdown", "otr_sleep", "otr_confirm"} => otr.clicked # 0

\* C17 witness: two rows in range, both with a Reserve control; the first was
\* clicked, and the routine has gone through all its steps once.
C17_Witness ==
    /\ pc = "otr_done"
    /\ Len(tour_details) = 2
    /\ C10_RowInRange(1) /\ C10_RowInRange(2)
    /\ tour_details[1].RESERVE_BUTTON /\ tour_details[2].RESERVE_BUTTON
    /\ otr.clicked = 1
    /\ trace = C17_Steps

\* C18: when the first row in range has no Reserve control, the routine ends
\* with NoSuchElementException: nothing is clicked, no later row in range is
\* tried, there is no countdown wait and no prompt, no decision is returned and
\* the state keeps its values.
C18_CandidateWithoutControl ==
    (/\ pc # "otr_select"
     /\ C10_AllDatesParse
     /\ C11_FirstRowInRange # 0
     /\ ~tour_details[C11_FirstRowInRange].RESERVE_BUTTON)
    => /\ pc = "otr_raised"
       /\ exc = "NoSuchElementException"
       /\ trace = <<>>
       /\ otr.clicked = 0
       /\ otr.ret = None
       /\ state = loaded

\* C18 witness: the first row in range has no Reserve control, the second row
\* in range has one, and the routine has raised.
C18_Witness ==
    /\ pc = "otr_raised"
    /\ exc = "NoSuchElementException"
    /\ Len(tour_details) = 2
    /\ C10_RowInRange(1) /\ C10_RowInRange(2)
    /\ ~tour_details[1].RESERVE_BUTTON
    /\ tour_details[2].RESERVE_BUTTON

\* Positions of an execution after the condition of run_bot's line 69.
AfterReserve == {"finally", "ctx_exit", "post", "save", "exit", "done"}

\* C12 as the specification states it: a Reserve control is clicked only in a
\* run where a date range was requested, the scrape has produced a tour row
\* and the persisted flag is true; and a run where a date range was requested
\* and the scrape has produced a tour row evaluates the flag without error.
C12_Original ==
    /\ "click_reserve" \in Range(trace) =>
         /\ args.reserve_date_range # NoRange
         /\ tour_details # <<>>
         /\ "PRESS_RESERVE_BUTTON" \in DOMAIN state
    /\ (/\ pc \in AfterReserve
        /\ "parse_table" \in Range(trace)
        /\ args.reserve_date_range # NoRange
        /\ tour_details # <<>>)
       => /\ exc # "AttributeError"
          /\ "AttributeError" \notin Range(errors)

\* C16 as the specification states it: the decision of the reservation routine
\* is fed back into the persisted state. The state of a run takes the decision
\* through set_field without error, and the state a run has written carries
\* the flag for the next run to read.
C16_Original ==
    /\ (/\ pc = "reserve"
        /\ args.reserve_date_range # NoRange
        /\ tour_details # <<>>) =>
         set_field(state, "PRESS_RESERVE_BUTTON", FALSE,
                   <<"Continue", "pressing", "reserve", "button">>).raised = "none"
    /\ "save_to_file" \in Range(trace) =>
         /\ "PRESS_RESERVE_BUTTON" \in file.keys
         /\ file.val["PRESS_RESERVE_BUTTON"] \in BOOLEAN

\* The table found in this run is one the parser raises on.
C19_ParseRaised ==
    /\ "parse_table" \in Range(trace)
    /\ available_tours_table # 0
    /\ _parse_available_tours_table(Tables[available_tours_table]).raised # "none"

\* The raw markup of the table found in this run, as a block of code.
C19_Markup == code_block(outerHTML(Tables[available_tours_table]), "html")

\* C19: when parsing the table of available tours raises, the run goes on: no
\* exception leaves the table step, the state's table is the raw markup of the
\* container (notified once when it differs from the loaded table, not at all
\* when it is equal), the list of tour rows is empty, and no Reserve control is
\* clicked in that run.
C19_ParseFailureFallsBack ==
    C19_ParseRaised =>
        /\ pc # "parse_table"
        /\ exc \notin PipelineExceptions
        /\ Range(errors) \cap PipelineExceptions = {}
        /\ state.TOUR_TABLE = C19_Markup
        /\ WithTitle(scrape_msgs, TitleTable) =
             IF loaded.TOUR_TABLE = C19_Markup THEN <<>>
             ELSE <<Notification(TitleTable, C19_Markup)>>
        /\ tour_details = <<>>
        /\ "click_reserve" \notin Range(trace)
        /\ (pc = "done" /\ exc = "none") => trace[Len(trace)] = "save_to_file"

\* C19 witness: a date range was requested, the table's cells do not fill its
\* rows, and the run has ended with the raw markup saved.
C19_Witness ==
    /\ pc = "done"
    /\ C19_ParseRaised
    /\ args.reserve_date_range # NoRange
    /\ file.kind = "json"
    /\ file.val.TOUR_TABLE = C19_Markup
    /\ "<table>" \in Range(file.val.TOUR_TABLE)

\* C20 as the specification states it: when the "no tours" error label is on
\* the page after the search, its trimmed text is the availability summary, no
\* table is parsed, the state's table stays as loaded, and the scrape returns
\* no tour row, whatever else the page contains.
C20_Original ==
    tour_availability_msg = <<"No", "tours", "found.">> =>
        /\ state.TOUR_AVAILABLE = <<"No", "tours", "found.">>
        /\ "parse_table" \notin Range(trace)
        /\ state.TOUR_TABLE = loaded.TOUR_TABLE
        /\ tour_details = <<>>

\* The exceptions _submit_tour_search_form raises.
C21_FormExceptions == {"NoSuchElementException", "RuntimeError"}
C21_WaitExceptions == {"TimeoutException", "WebDriverException"}

\* The search form could not be completed in this run: a control was not
\* found, the submit button was disabled or could not be clicked, or the
\* submission did not show or end.
C21_FormFailed ==
    /\ "submit_form" \in Range(trace)
    /\ \/ exc \in C21_FormExceptions
       \/ Range(errors) \cap C21_FormExceptions # {}
       \/ /\ "get_availability" \notin Range(trace) /\ pc # "availability"
          /\ exc \in C21_WaitExceptions \/ Range(errors) \cap C21_WaitExceptions # {}

\* C21: when the search form cannot be completed, the run ends with an error
\* and no later step happens: the availability summary and the table are
\* neither read nor changed, and no Reserve control is clicked.
C21_FormFailureEndsRun ==
    C21_FormFailed =>
        /\ Range(trace) \cap {"get_availability", "find_table", "screenshot",
                              "parse_table", "click_reserve"} = {}
        /\ pc \in AfterReserve
        /\ state.TOUR_AVAILABLE = loaded.TOUR_AVAILABLE
        /\ state.TOUR_TABLE = loaded.TOUR_TABLE
        /\ tour_availability_msg = <<>>
        /\ pc \in {"post", "save", "exit", "done"} => errors # <<>>
        /\ pc = "done" => exit_status = 1

\* C21 witness: the submit button was disabled (RuntimeError) and the run has
\* ended with status 1, the loaded summary saved again.
C21_Witness ==
    /\ pc = "done"
    /\ "RuntimeError" \in Range(errors)
    /\ exit_status = 1
    /\ loaded.TOUR_AVAILABLE = <<"No", "tours", "found.">>
    /\ file.kind = "json"
    /\ file.val.TOUR_AVAILABLE = <<"No", "tours", "found.">>

\* C22 as the specification states it: the screenshot is best-effort. Once it
\* was attempted the table is parsed, unless the operator interrupts the run.
C22_Original ==
    ("screenshot" \in Range(trace) /\ pc # "parse_table") =>
        \/ "parse_table" \in Range(trace)
        \/ exc = "KeyboardInterrupt"

\* C23 as the specification states it: a run that has ended reports status 1
\* when an error was captured or an exception reached the run boundary, else
\* status 2 when a warning was captured, else status 0.
C23_Original ==
    pc = "done" =>
        exit_status = IF errors # <<>> \/ IsException(exc) THEN 1
                      ELSE IF warnings # <<>> THEN 2 ELSE 0

\* C23, amended: a run that an operator interrupt has ended leaves with the
\* interrupt's status, which is none of the three; every other run reports 1
\* when an error was captured or an exception was raised (inside the capture
\* scope or by the notification transport), else 2 when a warning was
\* captured, else 0.
C23_ExitStatus ==
    pc = "done" =>
        exit_status = IF exc = "KeyboardInterrupt" THEN 130
                      ELSE IF errors # <<>> \/ exc # "none" THEN 1
                      ELSE IF warnings # <<>> THEN 2 ELSE 0

\* C23 witness: a run that has captured a warning and an error and reports 1.
C23_Witness ==
    /\ pc = "done"
    /\ warnings # <<>>
    /\ errors # <<>>
    /\ exc = "none"
    /\ exit_status = 1

\* The title set_field is called with for a field of the state.
C24_Title(f) ==
    IF f = "NEXT_TOUR_MSG" THEN TitleNextMsg
    ELSE IF f = "TOUR_AVAILABLE" THEN TitleAvailability
    ELSE IF f = "TOUR_TABLE" THEN TitleTable
    ELSE <<"Browser", "session">>

\* This step has changed field f the way set_field does: the notification of
\* the new value was returned and put at the end of the list.
C24_ThroughSetField(f) ==
    /\ Len(scrape_msgs') = Len(scrape_msgs) + 1
    /\ scrape_msgs'[Len(scrape_msgs')].title = C24_Title(f)
    /\ scrape_msgs'[Len(scrape_msgs')].content = state'[f]

\* The positions of the run controller and of the scrape pipeline.
C24_InRun == {"guard"} \cup InTry

\* C24 as the specification states it: during a run every change of a field
\* of the state is made by set_field, so it comes with set_field's
\* notification; no step assigns a field directly.
C24_Original ==
    [][(pc \in C24_InRun) =>
         (\A f \in Fields : state'[f] # state[f] => C24_ThroughSetField(f))]_vars

\* C24, amended: during a run every change of the next-release message, the
\* availability summary and the availability table is made by set_field; the
\* browser session identifier is assigned directly, by the session guard
\* only, without a notification.
C24_TrackedFieldsThroughSetField ==
    [][(pc \in C24_InRun) =>
         (/\ \A f \in Fields \ {"BROWSER_SESSION"} :
               state'[f] # state[f] => C24_ThroughSetField(f)
          /\ state'.BROWSER_SESSION # state.BROWSER_SESSION =>
               (/\ pc = "guard"
                /\ state'.BROWSER_SESSION = browser_session_id
                /\ scrape_msgs' = scrape_msgs))]_vars

\* C24 witness: the guard has stored a new session identifier and set_field
\* has stored a new release message.
C24_Witness ==
    /\ pc = "submit"
    /\ state.BROWSER_SESSION # loaded.BROWSER_SESSION
    /\ state.NEXT_TOUR_MSG # loaded.NEXT_TOUR_MSG
    /\ scrape_msgs = <<Notification(TitleNextMsg, state.NEXT_TOUR_MSG)>>

\* C25: set_field is idempotent. For every field and value, a second call with
\* the same value returns no notification and leaves the state as the first
\* call left it; a notification is returned by the first call at most.
C25_SetFieldIdempotent ==
    \A f \in Fields : \A v \in FieldValues(f) :
        LET first == set_field(state, f, v, C24_Title(f))
            second == set_field(first.state, f, v, C24_Title(f))
        IN  /\ Len(first.ret) <= 1
            /\ second.ret = <<>>
            /\ second.state = first.state
            /\ second.raised = "none"

\* C25 witness: the second of two runs reads the availability text that the
\* first run has stored, and set_field returns nothing for it.
C25_Witness ==
    /\ runs = 2
    /\ pc = "find_table"
    /\ tour_availability_msg = <<"3", "tours", "available">>
    /\ loaded.TOUR_AVAILABLE = <<"3", "tours", "available">>
    /\ state.TOUR_AVAILABLE = <<"3", "tours", "available">>
    /\ WithTitle(scrape_msgs, TitleAvailability) = <<>>

\* The elements of the page that match the release-message selector.
C26_Matches == IF msg_element = Absent THEN <<>> ELSE <<msg_element>>

\* C26 as the specification states it: on the page of this run, a lookup of
\* one element that is not the "or error" variant returns the element, or None
\* when nothing matches, and never raises; a lookup of all elements returns
\* them, the empty list when nothing matches; only the "or error" variant
\* raises NoSuchElementException when nothing matches.
C26_Original ==
    pc = "submit" =>
    LET singles == <<find_by_class(C26_Matches), find_by_tag(C26_Matches, FALSE),
                     find_by_xpath(C26_Matches)>>
    IN  /\ \A i \in 1..Len(singles) :
             /\ singles[i].raised = "none"
             /\ singles[i].ret = msg_element
        /\ find_by_tag(C26_Matches, TRUE).raised = "none"
        /\ find_by_tag(C26_Matches, TRUE).ret = C26_Matches
        /\ find_by_xpath_or_error(C26_Matches).raised =
             IF C26_Matches = <<>> THEN "NoSuchElementException" ELSE "none"

\* The message of the table step's LOGGER.exception call.
C27_Message == "Could not parse the table of available tours"

\* The table of this run could not be parsed and the run has ended.
C27_ParseFailedRun == pc = "done" /\ exc = "none" /\ C19_ParseRaised

\* C27 as the specification states it: a run whose only problem is that the
\* table could not be parsed ends as "completed with warnings" (status 2), not
\* as "completed with errors".
C27_Original ==
    (/\ C27_ParseFailedRun
     /\ Range(errors) \subseteq {C27_Message}
     /\ Range(warnings) \subseteq {C27_Message})
    => exit_status = 2

\* C27, amended: a table that cannot be parsed is reported as an error. The
\* run goes on and saves its state, the failure is in the list of errors and
\* not in the list of warnings, and the run ends as "completed with errors"
\* (status 1).
C27_ParseFailureIsError ==
    C27_ParseFailedRun =>
        /\ C27_Message \in Range(errors)
        /\ C27_Message \notin Range(warnings)
        /\ exit_status = 1
        /\ "save_to_file" \in Range(trace)

\* C27 witness: a run whose only captured message is the parse failure.
C27_Witness ==
    /\ C27_ParseFailedRun
    /\ errors = <<C27_Message>>
    /\ warnings = <<>>
    /\ exit_status = 1

\* There is something to post in this run and a webhook to post it to.
C29_ToPost ==
    /\ args.notify
    /\ notification_messages # <<>> \/ warnings # <<>> \/ errors # <<>>

\* C29 as the specification states it: the transport is invoked at most once
\* per run, and in a run that has passed the posting step or has ended it was
\* invoked exactly when a destination is configured and one of the three
\* lists is not empty.
C29_Original ==
    /\ Count("post_discord", trace) <= 1
    /\ pc \in {"save", "exit", "done"} =>
         ("post_discord" \in Range(trace) <=> C29_ToPost)

\* C29, amended: the same, for the runs that an operator interrupt has not
\* ended before the posting step; a run the interrupt has ended posts nothing.
C29_PostOnceWhenNeeded ==
    /\ Count("post_discord", trace) <= 1
    /\ pc \in {"save", "exit", "done"} =>
         ("post_discord" \in Range(trace) <=>
              (C29_ToPost /\ exc # "KeyboardInterrupt"))

\* C29 witness: a run with a webhook, no change, no warning and no error has
\* ended without posting.
C29_Witness ==
    /\ pc = "done"
    /\ args.notify
    /\ "save_to_file" \in Range(trace)
    /\ notification_messages = <<>> /\ warnings = <<>> /\ errors = <<>>
    /\ "post_discord" \notin Range(trace)

\* C30 as the specification states it: when the state a run has written
\* differs from the loaded state in the release message, the availability
\* summary or the table, the list handed to the transport in that run holds
\* the notification of that change.
C30_Original ==
    ("save_to_file" \in Range(trace) /\ args.notify) =>
        \A f \in Fields \ {"BROWSER_SESSION"} :
            file.val[f] # loaded[f] =>
                /\ "post_discord" \in Range(trace)
                /\ Notification(C24_Title(f), file.val[f]) \in Range(notification_messages)

\* The column of the table of this call whose header has the word w.
C28_Column(w) ==
    CHOOSE c \in 1..Len(available_tours_table.header) :
        HasWord(available_tours_table.header[c], w)

C28_NumRows == Len(available_tours_table.cells) \div Len(available_tours_table.header)

\* The trimmed text of the cell of row r under the header with the word w.
C28_Text(r, w) ==
    strip(available_tours_table.cells[
              (r - 1) * Len(available_tours_table.header) + C28_Column(w)].text)

\* The header line, then one line per row of the table, in the table's order:
\* the date, then the times.
C28_Expected ==
    <<"|">> \o H_Date \o <<"|">> \o H_Time \o <<"|", "\n">>
    \o Flatten([r \in 1..C28_NumRows |->
                  <<"|">> \o C28_Text(r, "Date") \o <<"|">> \o C28_Text(r, "Time")
                  \o <<"|", "\n">>])

\* C28: the rendered table is an order-preserving transform of the parsed
\* rows. It has one line per data row, in the table's order, the date cell and
\* then the time cell under the date and time headers, and it holds neither
\* the header nor a cell text of the reservation column, whichever position
\* the three columns have in the table.
C28_RenderedTable ==
    pc = "tbl_done" =>
        /\ exc = "none"
        /\ Len(tour_details) = C28_NumRows
        /\ \A r \in 1..C28_NumRows :
             /\ tour_details[r].DATE = C28_Text(r, "Date")
             /\ tour_details[r].TIMES = C28_Text(r, "Time")
        /\ state.TOUR_TABLE = code_block(C28_Expected, "text")
        /\ Count("\n", state.TOUR_TABLE) = C28_NumRows + 3
        /\ Range(state.TOUR_TABLE) \cap {"Reserve", "Full"} = {}

\* C28 witness: the reservation column comes first and the date column last;
\* the two rows are rendered in the table's order, Jan 20 before Jan 10.
C28_Witness ==
    /\ pc = "tbl_done"
    /\ available_tours_table.header = <<H_Reserve, H_Time \o <<WS>>, <<WS>> \o H_Date>>
    /\ Len(tour_details) = 2
    /\ tour_details[1].DATE = D_Jan20
    /\ tour_details[2].DATE = D_Jan10
    /\ state.TOUR_TABLE =
         code_block(<<"|">> \o H_Date \o <<"|">> \o H_Time \o <<"|", "\n">>
                    \o <<"|">> \o D_Jan20 \o <<"|">> \o Morning \o <<"|", "\n">>
                    \o <<"|">> \o D_Jan10 \o <<"|">> \o Noon \o <<"|", "\n">>, "text")

\* The position in the trace of the first occurrence of an operation; 0 when
\* it has not occurred.
C31_At(op) ==
    IF op \in Range(trace)
    THEN CHOOSE i \in 1..Len(trace) :
           trace[i] = op /\ \A j \in 1..(i - 1) : trace[j] # op
    ELSE 0

\* C31: the state file is written only after the call of the notification
\* transport has returned. When that call raises, the run ends without
\* writing the state: the file still yields the state this run has loaded, so
\* the next run compares against the old values and finds the same changes.
C31_SaveAfterPost ==
    /\ ("save_to_file" \in Range(trace) /\ "post_discord" \in Range(trace)) =>
         /\ C31_At("post_discord") < C31_At("save_to_file")
         /\ exc # "RequestException"
    /\ pc = "post" => "save_to_file" \notin Range(trace)
    /\ (pc = "done" /\ exc = "RequestException") =>
         /\ "save_to_file" \notin Range(trace)
         /\ trace[Len(trace)] = "post_discord"
         /\ from_file(file).state = loaded
         /\ exit_status = 1

\* C31 witness: a run has found a new release message, the transport has
\* raised, and the file still holds the old message.
C31_Witness ==
    /\ pc = "done"
    /\ exc = "RequestException"
    /\ loaded.NEXT_TOUR_MSG = <<"(empty)">>
    /\ state.NEXT_TOUR_MSG = <<"Tours", "open", "soon">>
    /\ notification_messages # <<>>
    /\ file.kind = "json"
    /\ file.val.NEXT_TOUR_MSG = <<"(empty)">>

\* The session guard has stopped this run: the new browser has the session
\* identifier that was loaded.
C33_Aborted ==
    /\ pc \in AfterGuard
    /\ "start_new_session" \in Range(trace)
    /\ browser # "none"
    /\ browser_session_id = loaded.BROWSER_SESSION

\* C33: a run that the session guard has aborted leaves every field of the
\* state as it was loaded; the state it writes at its end equals the loaded
\* state, and its list of notifications is empty.
C33_AbortLeavesState ==
    C33_Aborted =>
        /\ state = loaded
        /\ scrape_msgs = <<>>
        /\ notification_messages = <<>>
        /\ "save_to_file" \in Range(trace) =>
             /\ file.kind = "json"
             /\ file.keys = Fields
             /\ file.val = loaded
        /\ (pc = "done" /\ exc = "none") => "save_to_file" \in Range(trace)

\* C33 witness: an aborted run has written the state it had loaded, with the
\* release message and the summary it knew.
C33_Witness ==
    /\ pc = "done"
    /\ C33_Aborted
    /\ "save_to_file" \in Range(trace)
    /\ loaded.NEXT_TOUR_MSG = <<"Tours", "open", "soon">>
    /\ file.val = loaded

\* The Reserve control has been pressed in this run.
C32_Pressed == "click_reserve" \in Range(trace)

C34_Original ==
    \A p, q \in Overlapping :
        (browser[p] = "alive" /\ browser[q] = "alive") => p = q

\* When the check of one run comes after the start of the other, the second
\* run does fail: a run stopped by the check holds no driver.
C34_CheckAfterStartFails ==
    \A p \in Overlapping :
        exc[p] = "ProcessLookupError" => /\ pc[p] = "done"
                                         /\ browser[p] = "none"

====
